---- MODULE Spec2Model ----
(***************************************************************************)
(* State-machine model of the ThorVG Lottie slot override, the Lottie      *)
(* text-follow-path sampler, text range selector and gradient stop merge,  *)
(* and the software raster post effects (Gaussian blur, drop shadow, fill, *)
(* tritone).                                                               *)
(***************************************************************************)
EXTENDS Integers, Naturals, Sequences, FiniteSets, Bags, TLC

VARIABLES slot, hist, fp, gb, ds, sh, bf, fe, gr, tr

vars == <<slot, hist, fp, gb, ds, sh, bf, fe, gr, tr>>

(***************************************************************************)
(* Bounds of the model.                                                    *)
(***************************************************************************)
MaxPairs == 2
MaxVal == 2
MaxCmds == 3
SegLen == 2
MaxOver == 1
RegionSize == 2
MaxStops == 2
MaxOffset == 2
MaxQuarter == 4
MaxIdx == 2
MaxRadius == 20
MaxShade == 2
MaxNodes == 3

Vals == 0..MaxVal

(***************************************************************************)
(* The state of each component before it is used.  Every specification     *)
(* below exercises one component and leaves the others in this state.      *)
(***************************************************************************)
NoSlot == [type |-> "Float", pairs |-> <<>>, overridden |-> FALSE, live |-> 0, fault |-> FALSE]

NoHist ==
    [op |-> "init", byDefault |-> FALSE, tval |-> 0, cycle |-> "none", orig |-> <<>>, dflt |-> <<>>]

NoSampler ==
    [prepared |-> FALSE, path |-> [cmds |-> <<>>, pts |-> <<>>],
     c |-> [pts |-> 0, cmds |-> 0, cmdsCnt |-> 0, currentLen |-> 0, start |-> 0],
     totalLen |-> 0, st |-> "ok", called |-> FALSE, len |-> 0, pt |-> <<0, 0>>, angle |-> <<>>,
     inside |-> TRUE]

NoBlur ==
    [pc |-> "idle", image |-> "A", buffer |-> "B",
     mem |-> [b \in {"A", "B"} |-> [img |-> "scratch", h |-> 0, v |-> 0, flipped |-> FALSE]],
     direction |-> 0, level |-> 1, front |-> "A", back |-> "B", swapped |-> FALSE, i |-> 0,
     image0 |-> "A", swaps |-> 0, written |-> "A"]

\* What a pixel buffer of the drop shadow holds inside the region.
Pixels(body, shadow, passes, flipped, shifted, canvas, junk) ==
    [body |-> body, shadow |-> shadow, passes |-> passes, flipped |-> flipped,
     shifted |-> shifted, canvas |-> canvas, junk |-> junk]

NoShadow ==
    [pc |-> "idle", direct |-> FALSE, sigma0 |-> FALSE, level |-> 1, offset |-> <<0, 0>>,
     w |-> 0, h |-> 0,
     image |-> "A", buf0 |-> "P0", buf1 |-> "P1", surf1 |-> "P1", recover |-> "R",
     mem |-> [b \in {"A", "P0", "P1", "R"} |->
                Pixels(FALSE, FALSE, 0, FALSE, FALSE, FALSE, TRUE)],
     front |-> "A", back |-> "P1", i |-> 0, shiftDst |-> "none"]

\* The pixel-level shadow copy, the box filter, the effect parameters, the
\* gradient and the text range before they are used.
NoShift == [pc |-> "idle"]
NoFilter == [pc |-> "idle"]
NoEffect == [pc |-> "idle"]
NoGradient == [pc |-> "idle"]
NoRange == [pc |-> "idle"]

\* Every component but the Lottie slot, the path sampler, the blur and the
\* shadow buffers is idle.
PixelsIdle ==
    /\ sh = NoShift
    /\ bf = NoFilter
    /\ fe = NoEffect
    /\ gr = NoGradient
    /\ tr = NoRange

(***************************************************************************)
(* LottieSlot                                                              *)
(***************************************************************************)
NoProp == [null |-> TRUE]

\* LottieProperty::Type values handled by the switch of LottieSlot::assign.
SlotTypes == {"Float", "Scalar", "Vector", "Color", "Opacity", "ColorStop", "TextDoc", "Image"}

\* The member a slot of the given type reads and writes.
FieldOf(t) ==
    CASE t = "Float" -> "rotation"
      [] t = "Scalar" -> "scale"
      [] t = "Vector" -> "position"
      [] t = "Color" -> "color"
      [] t = "Opacity" -> "opacity"
      [] t = "ColorStop" -> "colorStops"
      [] t = "TextDoc" -> "doc"
      [] t = "Image" -> "data"

\* The object kinds whose member the static_cast of assign reads.
KindsOf(t) ==
    CASE t \in {"Float", "Scalar", "Vector"} -> {"Transform"}
      [] t = "Color" -> {"Solid"}
      [] t = "Opacity" -> {"Transform", "Solid"}
      [] t = "ColorStop" -> {"Gradient"}
      [] t = "TextDoc" -> {"Text"}
      [] t = "Image" -> {"Image"}

FieldsOfKind(k) ==
    CASE k = "Transform" -> {"rotation", "scale", "position", "opacity"}
      [] k = "Solid" -> {"color", "opacity"}
      [] k = "Gradient" -> {"color", "opacity", "colorStops"}
      [] k = "Text" -> {"doc"}
      [] k = "Image" -> {"data"}

\* A Lottie object whose member `f` holds v and whose other members hold 0.
MkObj(k, f, v) == [kind |-> k, fields |-> [g \in FieldsOfKind(k) |-> IF g = f THEN v ELSE 0]]

\* A property object: its type tag and its value.
MkProp(t, v) == [null |-> FALSE, type |-> t, value |-> v]

\* LottieObject::override(prop, shallow, release): the object's member of the
\* property's type takes the property's value.
Override(obj, prop) ==
    [obj EXCEPT !.fields = [g \in DOMAIN obj.fields |->
        IF g = FieldOf(prop.type) THEN prop.value ELSE obj.fields[g]]]

CopyFlagNoOverriddenTest(ov, byDefault) == ~byDefault

\* auto copy = !overridden && !byDefault;
CopyFlag(ov, byDefault) == ~ov /\ ~byDefault

OverriddenAfterAssignAlways(ov, byDefault) == TRUE

\* if (!byDefault) overridden = true;
OverriddenAfterAssign(ov, byDefault) == IF ~byDefault THEN TRUE ELSE ov

\* One iteration of the ARRAY_FOREACH of assign: the backup, then the override.
AssignPair(pair, t, target, copy) ==
    [obj |-> Override(pair.obj, MkProp(t, target.fields[FieldOf(t)])),
     prop |-> IF copy THEN MkProp(t, pair.obj.fields[FieldOf(t)]) ELSE pair.prop]

\* One iteration of the ARRAY_FOREACH of reset.
ResetPair(pair) ==
    [obj |-> IF pair.prop.null THEN pair.obj ELSE Override(pair.obj, pair.prop),
     prop |-> NoProp]

NonNull(pairs) == {i \in DOMAIN pairs : ~pairs[i].prop.null}

FieldVals(s) == [i \in DOMAIN s.pairs |-> s.pairs[i].obj.fields[FieldOf(s.type)]]


(***************************************************************************)
(* LottieTextFollowPath                                                    *)
(*                                                                         *)
(* Points are integer pairs and every segment of a modelled path is        *)
(* parallel to an axis, so lengths, angles (in degrees) and the points     *)
(* computed from them are exact integers.  Array positions are 0-based as  *)
(* in the source: cmds and pts are offsets from path.cmds.data and         *)
(* path.pts.data.                                                          *)
(***************************************************************************)
Zero == <<0, 0>>
Origin == <<1, 1>>

Abs(x) == IF x < 0 THEN 0 - x ELSE x

\* tvg::atan2(dy, dx) in degrees, on axis-parallel vectors; atan2(0, 0) = 0.
Atan2(dy, dx) ==
    CASE dy = 0 /\ dx >= 0 -> 0
      [] dy = 0 /\ dx < 0 -> 180
      [] dx = 0 /\ dy > 0 -> 90
      [] dx = 0 /\ dy < 0 -> 0 - 90

Cos(a) == CASE a = 0 -> 1 [] a = 180 -> 0 - 1 [] OTHER -> 0
Sin(a) == CASE a = 90 -> 1 [] a = 0 - 90 -> 0 - 1 [] OTHER -> 0

\* {p.x + len * cos(angle), p.y + len * sin(angle)}
Along(p, len, a) == <<p[1] + len * Cos(a), p[2] + len * Sin(a)>>

\* tvg::length(a, b) of an axis-parallel segment.
Length(a, b) == Abs(b[1] - a[1]) + Abs(b[2] - a[2])

Parallel(a, b) == a[1] = b[1] \/ a[2] = b[2]

CmdOk(p, i) == i >= 0 /\ i < Len(p.cmds)
PtOk(p, j) == j >= 0 /\ j < Len(p.pts)
CmdAt(p, i) == p.cmds[i + 1]
PtAt(p, j) == p.pts[j + 1]

\* ---- the paths handed to prepare() ----
LineSteps == {<<0, 0>>, <<SegLen, 0>>, <<0, SegLen>>}
CubicSteps == {<<1, 0>>, <<0, 1>>}

Elems ==
    [cmd : {"MoveTo", "LineTo"}, d : LineSteps]
        \cup [cmd : {"CubicTo"}, d : CubicSteps]
        \cup {[cmd |-> "Close", d |-> Zero]}

Recipes ==
    {<<>>} \cup UNION {
        {[i \in 1..n |-> IF i = 1 THEN [cmd |-> "MoveTo", d |-> Zero] ELSE r[i]] :
            r \in [1..n -> Elems]} : n \in 1..MaxCmds}

\* The points a recipe appends: one for MoveTo and LineTo, three for CubicTo
\* (a straight cubic with evenly spaced control points), none for Close.
RECURSIVE PtsOf(_, _, _)
PtsOf(r, k, acc) ==
    IF k > Len(r) THEN acc
    ELSE LET cur == IF acc = <<>> THEN Origin ELSE acc[Len(acc)]
             d == r[k].d
             add == CASE r[k].cmd = "Close" -> <<>>
                      [] r[k].cmd = "CubicTo" ->
                            << <<cur[1] + d[1], cur[2] + d[2]>>,
                               <<cur[1] + 2 * d[1], cur[2] + 2 * d[2]>>,
                               <<cur[1] + 3 * d[1], cur[2] + 3 * d[2]>> >>
                      [] OTHER -> << <<cur[1] + d[1], cur[2] + d[2]>> >>
         IN PtsOf(r, k + 1, acc \o add)

MkPath(r) == [cmds |-> [i \in 1..Len(r) |-> r[i].cmd], pts |-> PtsOf(r, 1, <<>>)]

\* ---- the cursor ----
\* pts = path.pts.data; cmds = path.cmds.data; cmdsCnt = path.cmds.count;
\* currentLen = 0.0f
ResetCursor(c, p) == [c EXCEPT !.pts = 0, !.cmds = 0, !.cmdsCnt = Len(p.cmds), !.currentLen = 0]

\* the shift lambda of position()
Shift(c, p) ==
    LET cmd == CmdAt(p, c.cmds)
        moved == CASE cmd = "MoveTo" -> [c EXCEPT !.start = c.pts, !.pts = c.pts + 1]
                   [] cmd = "LineTo" -> [c EXCEPT !.pts = c.pts + 1]
                   [] cmd = "CubicTo" -> [c EXCEPT !.pts = c.pts + 3]
                   [] OTHER -> c
    IN [moved EXCEPT !.cmds = c.cmds + 1, !.cmdsCnt = c.cmdsCnt - 1]

\* Bezier::length() of a straight, evenly spaced cubic.
BezLength(p0, p1, p2, p3) == Length(p0, p3)

\* the length lambda of position()
SegLength(c, p) ==
    LET cmd == CmdAt(p, c.cmds)
    IN CASE cmd = "LineTo" -> Length(PtAt(p, c.pts - 1), PtAt(p, c.pts))
         [] cmd = "CubicTo" -> BezLength(PtAt(p, c.pts - 1), PtAt(p, c.pts),
                                         PtAt(p, c.pts + 1), PtAt(p, c.pts + 2))
         [] cmd = "Close" -> Length(PtAt(p, c.pts - 1), PtAt(p, c.start))
         [] OTHER -> 0

\* tvg::length(cmds, cmdsCnt, pts, ptsCnt): the sum of the segment lengths.
RECURSIVE SumLengths(_, _)
SumLengths(c, p) ==
    IF c.cmdsCnt <= 0 THEN 0 ELSE SegLength(c, p) + SumLengths(Shift(c, p), p)

FreshCursor(p) == [pts |-> 0, cmds |-> 0, cmdsCnt |-> Len(p.cmds), currentLen |-> 0, start |-> 0]

TotalLength(p) == SumLengths(FreshCursor(p), p)

\* Every Close segment of the path is parallel to an axis.
RECURSIVE ClosesParallel(_, _)
ClosesParallel(c, p) ==
    IF c.cmdsCnt <= 0 THEN TRUE
    ELSE /\ CmdAt(p, c.cmds) = "Close" => Parallel(PtAt(p, c.pts - 1), PtAt(p, c.start))
         /\ ClosesParallel(Shift(c, p), p)

Paths == {p \in {MkPath(r) : r \in Recipes} : ClosesParallel(FreshCursor(p), p)}

\* ---- results of the stages of position() ----
Ret(c, pt, angle) == [done |-> TRUE, st |-> "ok", c |-> c, pt |-> pt, angle |-> angle, len |-> 0]
Oob(c) == [done |-> TRUE, st |-> "oob", c |-> c, pt |-> Zero, angle |-> <<>>, len |-> 0]
Hang(c) == [done |-> TRUE, st |-> "hang", c |-> c, pt |-> Zero, angle |-> <<>>, len |-> 0]
Cont(c, len) == [done |-> FALSE, st |-> "ok", c |-> c, pt |-> Zero, angle |-> <<>>, len |-> len]

\* Point LottieTextFollowPath::split(float dLen, float lenSearched, float& angle)
Split(c, p, dLen, lenSearched) ==
    LET cmd == CmdAt(p, c.cmds)
    IN CASE cmd = "MoveTo" -> Ret(c, Zero, <<0>>)
         [] cmd = "LineTo" ->
              LET a == PtAt(p, c.pts - 1)
                  b == PtAt(p, c.pts)
              IN Ret(c, Zero, <<Atan2(b[2] - a[2], b[1] - a[1])>>)
         [] cmd = "CubicTo" ->
              LET a == PtAt(p, c.pts - 1)
                  b == PtAt(p, c.pts + 2)
                  ang == Atan2(b[2] - a[2], b[1] - a[1])
              IN Ret(c, Along(a, lenSearched - c.currentLen, ang), <<ang>>)
         [] cmd = "Close" ->
              LET a == PtAt(p, c.pts - 1)
                  b == PtAt(p, c.start)
              IN Ret(c, Zero, <<Atan2(b[2] - a[2], b[1] - a[1])>>)

\* while (lenSearched < 0.0f) lenSearched += totalLen;
RECURSIVE WrapUp(_, _)
WrapUp(len, total) == IF len < 0 THEN WrapUp(len + total, total) ELSE len

\* while (lenSearched > totalLen) lenSearched -= totalLen;
RECURSIVE WrapDown(_, _)
WrapDown(len, total) == IF len > total THEN WrapDown(len - total, total) ELSE len

RewindKeepsCursor(c, p) == c

\* The cursor reset of the two wrapping branches.
RewindOnWrap(c, p) == ResetCursor(c, p)

\* path.cmds.last(): reads data[count - 1].
LastOk(p) == CmdOk(p, Len(p.cmds) - 1)
Last(p) == CmdAt(p, Len(p.cmds) - 1)

\* position before the start of the curve
BeforeStart(c, p, total, len) ==
    IF len > 0 THEN Cont(c, len)
    ELSE IF ~LastOk(p) THEN Oob(c)
    ELSE IF Last(p) = "Close"
         THEN IF len < 0 /\ total = 0 THEN Hang(c)
              ELSE Cont(RewindOnWrap(c, p), WrapUp(len, total))
    ELSE IF c.cmds >= Len(p.cmds) - 1
         THEN IF PtOk(p, c.start) THEN Ret(c, PtAt(p, c.start), <<>>) ELSE Oob(c)
    ELSE LET nxt == CmdAt(p, c.cmds + 1)
         IN CASE nxt = "LineTo" ->
                   IF PtOk(p, c.pts) /\ PtOk(p, c.pts + 1)
                   THEN LET a == PtAt(p, c.pts)
                            b == PtAt(p, c.pts + 1)
                            ang == Atan2(b[2] - a[2], b[1] - a[1])
                        IN Ret(c, Along(a, len, ang), <<ang>>)
                   ELSE Oob(c)
              [] nxt = "CubicTo" ->
                   IF PtOk(p, c.pts) /\ PtOk(p, c.pts + 3)
                   THEN LET a == PtAt(p, c.pts)
                            b == PtAt(p, c.pts + 1)
                            ang == Atan2(b[2] - a[2], b[1] - a[1])
                        IN Ret(c, Along(a, len, ang), <<ang>>)
                   ELSE Oob(c)
              [] OTHER ->
                   IF PtOk(p, c.start) THEN Ret(c, PtAt(p, c.start), <<0>>) ELSE Oob(c)

\* while (cmdsCnt > 1) shift();
RECURSIVE ShiftToLast(_, _)
ShiftToLast(c, p) == IF c.cmdsCnt > 1 THEN ShiftToLast(Shift(c, p), p) ELSE c

\* position beyond the end of the curve
BeyondEnd(c0, p, total, len) ==
    IF len < total THEN Cont(c0, len)
    ELSE IF ~LastOk(p) THEN Oob(c0)
    ELSE IF Last(p) = "Close"
         THEN IF len > total /\ total = 0 THEN Hang(c0)
              ELSE Cont(RewindOnWrap(c0, p), WrapDown(len, total))
    ELSE LET c == ShiftToLast(c0, p)
         IN IF ~CmdOk(p, c.cmds) THEN Oob(c)
            ELSE LET cmd == CmdAt(p, c.cmds)
                 IN CASE cmd = "MoveTo" -> Ret(c, PtAt(p, c.pts), <<0>>)
                      [] cmd = "LineTo" ->
                           LET a == PtAt(p, c.pts - 1)
                               b == PtAt(p, c.pts)
                               ang == Atan2(b[2] - a[2], b[1] - a[1])
                           IN Ret(c, Along(b, len - total, ang), <<ang>>)
                      [] cmd = "CubicTo" ->
                           LET a == PtAt(p, c.pts + 1)
                               b == PtAt(p, c.pts + 2)
                               ang == Atan2(b[2] - a[2], b[1] - a[1])
                           IN Ret(c, Along(b, len - total, ang), <<ang>>)
                      [] cmd = "Close" ->
                           LET a == PtAt(p, c.pts - 1)
                               b == PtAt(p, c.start)
                               ang == Atan2(b[2] - a[2], b[1] - a[1])
                           IN Ret(c, Along(a, len - total, ang), <<ang>>)

\* while (cmdsCnt > 0) { ... } return {};
RECURSIVE Walk(_, _, _)
Walk(c, p, len) ==
    IF c.cmdsCnt <= 0 THEN Ret(c, Zero, <<>>)
    ELSE LET dLen == SegLength(c, p)
         IN IF c.currentLen + dLen < len
            THEN Walk([Shift(c, p) EXCEPT !.currentLen = c.currentLen + dLen], p, len)
            ELSE Split(c, p, dLen, len)

\* reset required if text partially crosses curve start, then the walk
InRange(c, p, len) ==
    Walk(IF len < c.currentLen THEN ResetCursor(c, p) ELSE c, p, len)

\* Point LottieTextFollowPath::position(float lenSearched, float& angle)
PositionOf(c, p, total, len) ==
    LET r1 == BeforeStart(c, p, total, len)
    IN IF r1.done THEN r1
       ELSE LET r2 == BeyondEnd(r1.c, p, total, r1.len)
            IN IF r2.done THEN r2 ELSE InRange(r2.c, p, r2.len)

InitPath ==
    /\ fp = NoSampler
    /\ slot = NoSlot
    /\ hist = NoHist
    /\ gb = NoBlur
    /\ ds = NoShadow
    /\ PixelsIdle

\* float LottieTextFollowPath::prepare(...): the cursor is set on the new path.
Prepare ==
    /\ ~fp.prepared
    /\ \E p \in Paths :
         fp' = [fp EXCEPT !.prepared = TRUE, !.path = p, !.c = FreshCursor(p),
                          !.totalLen = TotalLength(p)]
    /\ UNCHANGED <<slot, hist, gb, ds, sh, bf, fe, gr, tr>>

QueryLens(total) == (0 - total - MaxOver)..(2 * total + MaxOver)

\* What a read outside the arrays may hand back.
GarbagePts == {Zero, Origin}
GarbageAngles == {<<>>, <<0>>, <<90>>}

Position ==
    /\ fp.prepared
    /\ fp.st = "ok"
    /\ \E len \in QueryLens(fp.totalLen) :
         LET r == PositionOf(fp.c, fp.path, fp.totalLen, len)
         IN IF r.st = "oob"
            THEN \E g \in GarbagePts, a \in GarbageAngles :
                    fp' = [fp EXCEPT !.st = "oob", !.called = TRUE, !.len = len, !.c = r.c,
                                     !.inside = fp.inside /\ 0 < len /\ len < fp.totalLen,
                                     !.pt = g, !.angle = a]
            ELSE fp' = [fp EXCEPT !.st = r.st, !.called = TRUE, !.len = len, !.c = r.c,
                                     !.inside = fp.inside /\ 0 < len /\ len < fp.totalLen,
                                  !.pt = r.pt, !.angle = r.angle]
    /\ UNCHANGED <<slot, hist, gb, ds, sh, bf, fe, gr, tr>>

NextPath == Prepare \/ Position

SpecPath == InitPath /\ [][NextPath]_vars

\* ---- the geometry of a path, command by command ----
\* For each command: its kind, the points it joins, its length, and the sum of
\* the lengths of the commands before it.
RECURSIVE SegsFrom(_, _, _)
SegsFrom(c, p, acc) ==
    IF c.cmdsCnt <= 0 THEN acc
    ELSE LET cmd == CmdAt(p, c.cmds)
             seg == [cmd |-> cmd,
                     from |-> IF cmd = "MoveTo" THEN PtAt(p, c.pts) ELSE PtAt(p, c.pts - 1),
                     to |-> CASE cmd = "Close" -> PtAt(p, c.start)
                              [] cmd = "CubicTo" -> PtAt(p, c.pts + 2)
                              [] OTHER -> PtAt(p, c.pts),
                     len |-> SegLength(c, p),
                     before |-> c.currentLen]
         IN SegsFrom([Shift(c, p) EXCEPT !.currentLen = c.currentLen + seg.len], p, Append(acc, seg))

Segs(p) == SegsFrom(FreshCursor(p), p, <<>>)

SegAngle(seg) == Atan2(seg.to[2] - seg.from[2], seg.to[1] - seg.from[1])

Closed(p) == LastOk(p) /\ Last(p) = "Close"
Open(p) == LastOk(p) /\ Last(p) # "Close"

\* C4: a requested length inside a LineTo segment (lengthBefore < len <=
\* lengthBefore + segmentLength) is answered with the point interpolated
\* linearly along that segment and the angle of the segment's direction.
C4_LineInterpolation ==
    (fp.called /\ fp.st # "hang") =>
        \A k \in DOMAIN Segs(fp.path) :
            LET seg == Segs(fp.path)[k]
            IN (seg.cmd = "LineTo" /\ seg.before < fp.len /\ fp.len <= seg.before + seg.len) =>
                  /\ fp.st = "ok"
                  /\ fp.pt = Along(seg.from, fp.len - seg.before, SegAngle(seg))
                  /\ fp.angle = <<SegAngle(seg)>>

\* C5: on an open path whose first segment has a direction, a length <= 0 is
\* answered with start + len * (tangent of the first segment) and the angle of
\* that tangent, whatever position() calls came before.
C5_BeforeStartExtrapolation ==
    (fp.called /\ Open(fp.path) /\ fp.len <= 0 /\ Len(fp.path.cmds) >= 2) =>
        LET seg == Segs(fp.path)[2]
        IN (seg.cmd \in {"LineTo", "CubicTo"} /\ seg.len > 0) =>
              /\ fp.st = "ok"
              /\ fp.pt = Along(seg.from, fp.len, SegAngle(seg))
              /\ fp.angle = <<SegAngle(seg)>>

\* C6: on an open path whose last segment has a direction, a length >= totalLen
\* is answered with endPoint + (len - totalLen) * (tangent of the last segment)
\* and the angle of that tangent, from every cursor state earlier calls leave.
C6_BeyondEndExtrapolation ==
    (fp.called /\ Open(fp.path) /\ fp.len >= fp.totalLen) =>
        LET seg == Segs(fp.path)[Len(fp.path.cmds)]
        IN (seg.cmd \in {"LineTo", "CubicTo"} /\ seg.len > 0) =>
              /\ fp.st = "ok"
              /\ fp.pt = Along(seg.to, fp.len - fp.totalLen, SegAngle(seg))
              /\ fp.angle = <<SegAngle(seg)>>

\* The requested length brought into [0, totalLen] by whole multiples of totalLen.
WrappedLen(len, total) ==
    IF len < 0 THEN len % total
    ELSE IF len > total THEN ((len - 1) % total) + 1
    ELSE len

\* C7: on a closed path of positive length, a length below 0 or above totalLen
\* is answered, from any cursor state, with the point, the angle and the cursor
\* that a freshly prepared sampler gives for the length wrapped into
\* [0, totalLen].
C7_ClosedPathWrap ==
    (fp.called /\ Closed(fp.path) /\ fp.totalLen > 0
        /\ (fp.len < 0 \/ fp.len > fp.totalLen)) =>
        LET r == PositionOf(FreshCursor(fp.path), fp.path, fp.totalLen,
                            WrappedLen(fp.len, fp.totalLen))
        IN /\ fp.st = "ok"
           /\ fp.pt = r.pt
           /\ fp.angle = r.angle
           /\ fp.c.cmds = r.c.cmds /\ fp.c.pts = r.c.pts
           /\ fp.c.cmdsCnt = r.c.cmdsCnt /\ fp.c.currentLen = r.c.currentLen

\* A length more than one whole turn below 0 was wrapped onto the closing
\* segment of a closed path.
C7_Witness ==
    /\ fp.called /\ Closed(fp.path) /\ fp.totalLen > 0
    /\ fp.len < 0 - fp.totalLen
    /\ CmdAt(fp.path, fp.c.cmds) = "Close"
    /\ fp.angle = <<180>>

\* C8: position() never reads a command or a point outside the arrays of the
\* prepared path.
C8_NoReadOutsideArrays == fp.st # "oob"

(***************************************************************************)
(* effectGaussianBlur: the front/back buffer handling.                     *)
(*                                                                         *)
(* "A" and "B" are the two physical pixel buffers.  What a buffer holds is *)
(* written as the number of horizontal and vertical filter passes applied  *)
(* to the source image and whether it is stored x/y-flipped.               *)
(***************************************************************************)
MAX_LEVEL == 3

Buffers == {"A", "B"}
OtherBuffer(b) == IF b = "A" THEN "B" ELSE "A"

Source == [img |-> "source", h |-> 0, v |-> 0, flipped |-> FALSE]
Scratch == [img |-> "scratch", h |-> 0, v |-> 0, flipped |-> FALSE]

\* _gaussianFilter(dst, src, ..., flipped): one box filter pass along the rows.
Filtered(content, flipped) ==
    IF flipped THEN [content EXCEPT !.v = content.v + 1]
    ELSE [content EXCEPT !.h = content.h + 1]

\* rasterXYFlip(src, dst, ...): dst receives src with x and y exchanged.
Flipped(content) == [content EXCEPT !.flipped = ~content.flipped]

SwappedStays(sw) == sw

\* swapped = !swapped;
ToggleSwapped(sw) == ~sw

InitBlur ==
    /\ gb = NoBlur
    /\ ds = NoShadow
    /\ fp = NoSampler
    /\ slot = NoSlot
    /\ hist = NoHist
    /\ PixelsIdle

\* Entry of effectGaussianBlur: the compositor image holds the rendered source;
\* front = cmp->image.buf32, back = buffer.buf32, swapped = false.
BlurEnter ==
    /\ gb.pc \in {"idle", "done"}
    /\ \E direction \in 0..2, level \in 1..MAX_LEVEL :
         gb' = [gb EXCEPT !.pc = "horizontal",
                          !.mem = [b \in Buffers |-> IF b = gb.image THEN Source ELSE Scratch],
                          !.direction = direction, !.level = level,
                          !.front = gb.image, !.back = gb.buffer, !.swapped = FALSE, !.i = 0,
                          !.image0 = gb.image, !.swaps = 0, !.written = gb.image]
    /\ UNCHANGED <<slot, hist, fp, ds, sh, bf, fe, gr, tr>>

\* One _gaussianFilter pass from front into back, then std::swap(front, back).
FilterPass(flipped) ==
    [gb EXCEPT !.mem = [gb.mem EXCEPT ![gb.back] = Filtered(gb.mem[gb.front], flipped)],
               !.written = gb.back,
               !.front = gb.back, !.back = gb.front,
               !.swapped = ToggleSwapped(gb.swapped),
               !.swaps = gb.swaps + 1,
               !.i = gb.i + 1]

\* One rasterXYFlip from front into back, then std::swap(front, back).
FlipPass(pc) ==
    [gb EXCEPT !.mem = [gb.mem EXCEPT ![gb.back] = Flipped(gb.mem[gb.front])],
               !.written = gb.back,
               !.front = gb.back, !.back = gb.front,
               !.swaps = gb.swaps + 1,
               !.i = 0,
               !.pc = pc]

\* if (params->direction != 2) for (i < level) { filter; swap; swapped = !swapped; }
BlurHorizontal ==
    /\ gb.pc = "horizontal"
    /\ IF gb.direction # 2 /\ gb.i < gb.level
       THEN gb' = FilterPass(FALSE)
       ELSE gb' = [gb EXCEPT !.pc = "flip", !.i = 0]
    /\ UNCHANGED <<slot, hist, fp, ds, sh, bf, fe, gr, tr>>

\* if (params->direction != 1) { rasterXYFlip(front, back, ..., false); swap; ...
BlurFlip ==
    /\ gb.pc = "flip"
    /\ IF gb.direction # 1
       THEN gb' = FlipPass("vertical")
       ELSE gb' = [gb EXCEPT !.pc = "exchange"]
    /\ UNCHANGED <<slot, hist, fp, ds, sh, bf, fe, gr, tr>>

\* ... for (i < level) { filter (flipped); swap; swapped = !swapped; }
\*     rasterXYFlip(front, back, ..., true); swap; }
BlurVertical ==
    /\ gb.pc = "vertical"
    /\ IF gb.i < gb.level
       THEN gb' = FilterPass(TRUE)
       ELSE gb' = FlipPass("exchange")
    /\ UNCHANGED <<slot, hist, fp, ds, sh, bf, fe, gr, tr>>

\* if (swapped) std::swap(cmp->image.buf8, buffer.buf8); return true;
BlurExchange ==
    /\ gb.pc = "exchange"
    /\ gb' = [gb EXCEPT !.pc = "done",
                        !.image = IF gb.swapped THEN gb.buffer ELSE gb.image,
                        !.buffer = IF gb.swapped THEN gb.image ELSE gb.buffer]
    /\ UNCHANGED <<slot, hist, fp, ds, sh, bf, fe, gr, tr>>

NextBlur == BlurEnter \/ BlurHorizontal \/ BlurFlip \/ BlurVertical \/ BlurExchange

SpecBlur == InitBlur /\ [][NextBlur]_vars

\* The image a blur of the given direction and level produces.
BlurResult(direction, level) ==
    [img |-> "source",
     h |-> IF direction # 2 THEN level ELSE 0,
     v |-> IF direction # 1 THEN level ELSE 0,
     flipped |-> FALSE]

\* C9: when effectGaussianBlur returns, cmp->image designates the buffer that
\* received the last filter or flip write, and that buffer holds the filtered
\* image; the image and scratch pointers were exchanged exactly when the number
\* of front/back swaps is odd; a two-direction blur made 2 * level + 2 swaps.
C9_BlurResultLocation ==
    gb.pc = "done" =>
        /\ gb.image = gb.written
        /\ gb.mem[gb.image] = BlurResult(gb.direction, gb.level)
        /\ gb.buffer = OtherBuffer(gb.image)
        /\ (gb.image # gb.image0) <=> (gb.swaps % 2 = 1)
        /\ gb.direction = 0 => gb.swaps = 2 * gb.level + 2

\* A horizontal-only blur of odd level returned with the pointers exchanged,
\* after an earlier blur had already exchanged them once.
C9_Witness ==
    /\ gb.pc = "done"
    /\ gb.direction = 1 /\ gb.level = 3
    /\ gb.image0 = "B" /\ gb.image = "A"

(***************************************************************************)
(* effectDropShadow: the buffer handling.                                  *)
(*                                                                         *)
(* "A" is the buffer of the compositor image on entry, "P0" and "P1" are   *)
(* the buffers of the two scratch surfaces, "R" is the recovery surface.   *)
(***************************************************************************)
ShadowBuffers == {"A", "P0", "P1", "R"}

\* the rendered body, a transparent region, leftover pixels, the canvas
Body == Pixels(TRUE, FALSE, 0, FALSE, FALSE, FALSE, FALSE)
Clear == Pixels(FALSE, FALSE, 0, FALSE, FALSE, FALSE, FALSE)
Leftover == Pixels(FALSE, FALSE, 0, FALSE, FALSE, FALSE, TRUE)
Canvas == Pixels(FALSE, FALSE, 0, FALSE, FALSE, TRUE, FALSE)

\* _dropShadowFilter(dst, src, ...): dst = the shadow colour weighted by the
\* box-filtered alpha of src.
ShadowFiltered(src) ==
    Pixels(FALSE, TRUE, src.passes + 1, src.flipped, src.shifted, FALSE, src.junk)

\* rasterXYFlip(src, dst, ...)
ShadowFlipped(src) == [src EXCEPT !.flipped = ~src.flipped]

\* _dropShadowShift(dst, src, ..., direct = false): rasterPixel32 copies the rows
\* of src, displaced by the offset, into dst.
ShiftCopied(src, dst) == [src EXCEPT !.shifted = TRUE, !.junk = src.junk \/ dst # Clear]

\* _dropShadowShift(dst, src, ..., direct = true): rasterTranslucentPixel32
\* blends the displaced rows of src over dst.
ShiftBlended(src, dst) ==
    [dst EXCEPT !.shadow = TRUE, !.passes = src.passes, !.flipped = src.flipped,
                !.shifted = TRUE, !.junk = src.junk \/ dst.junk]

\* rasterTranslucentPixel32(d, s, w, 255) and  *d = *s + ALPHA_BLEND(*d, IA(*s)):
\* s composited over d.
Over(s, d) ==
    IF s = Body /\ ~d.body THEN [d EXCEPT !.body = TRUE]
    ELSE [d EXCEPT !.junk = TRUE]

\* the shadow loop of _dropShadowNoFilter: the displaced silhouette of src is
\* written into dst (direct: blended over dst).
NoFilterShadow(src, dst, direct) ==
    IF direct
    THEN [dst EXCEPT !.shadow = TRUE, !.passes = 0, !.shifted = TRUE,
                     !.junk = dst.junk \/ src # Body]
    ELSE Pixels(FALSE, TRUE, 0, FALSE, TRUE, FALSE, src # Body \/ dst # Clear)

OutsideScreenBeyondOnly(offset, w, h) == Abs(offset[1]) > w \/ Abs(offset[2]) > h

\* if (abs(data->offset.x) >= w || abs(data->offset.y) >= h) return true;
OutsideScreen(offset, w, h) == Abs(offset[1]) >= w \/ Abs(offset[2]) >= h

InitShadow ==
    /\ ds = NoShadow
    /\ gb = NoBlur
    /\ fp = NoSampler
    /\ slot = NoSlot
    /\ hist = NoHist
    /\ PixelsIdle

ShadowOffsets == (0 - RegionSize)..RegionSize

\* Entry of effectDropShadow, up to the choice of the path taken.
ShadowEnter ==
    /\ ds.pc = "idle"
    /\ \E direct \in BOOLEAN, sigma0 \in BOOLEAN, level \in 1..MAX_LEVEL,
          ox \in ShadowOffsets, oy \in ShadowOffsets :
         ds' = [ds EXCEPT
                  !.direct = direct, !.sigma0 = sigma0, !.level = level,
                  !.offset = <<ox, oy>>, !.w = RegionSize, !.h = RegionSize,
                  !.mem = [b \in ShadowBuffers |->
                             CASE b = "A" -> Body [] b = "R" -> Canvas [] OTHER -> Leftover],
                  !.front = ds.image, !.back = ds.buf1,
                  !.pc = IF OutsideScreen(<<ox, oy>>, RegionSize, RegionSize) THEN "done"
                         ELSE IF sigma0 THEN "nofilter" ELSE "first"]
    /\ UNCHANGED <<slot, hist, fp, gb, sh, bf, fe, gr, tr>>

\* if (params->sigma == 0.0f) { ... return true; }
ShadowNoFilter ==
    /\ ds.pc = "nofilter"
    /\ IF ds.direct
       THEN ds' = [ds EXCEPT
                     !.mem = [ds.mem EXCEPT ![ds.recover] =
                                NoFilterShadow(ds.mem[ds.image], ds.mem[ds.recover], TRUE)],
                     !.shiftDst = ds.recover,
                     !.pc = "done"]
       ELSE ds' = [ds EXCEPT
                     !.mem = [ds.mem EXCEPT ![ds.buf1] =
                                Over(ds.mem[ds.image],
                                     NoFilterShadow(ds.mem[ds.image], ds.mem[ds.buf1], FALSE))],
                     !.shiftDst = ds.buf1,
                     !.image = ds.buf1, !.buf1 = ds.image,
                     !.pc = "done"]
    /\ UNCHANGED <<slot, hist, fp, gb, sh, bf, fe, gr, tr>>

\* _dropShadowFilter(back, front, ..., kernel[0]); std::swap(front, buffer[0]->buf32);
\* std::swap(front, back);
ShadowFirst ==
    /\ ds.pc = "first"
    /\ ds' = [ds EXCEPT
                !.mem = [ds.mem EXCEPT ![ds.back] = ShadowFiltered(ds.mem[ds.front])],
                !.buf0 = ds.front,
                !.front = ds.back,
                !.back = ds.buf0,
                !.i = 1,
                !.pc = "horizontal"]
    /\ UNCHANGED <<slot, hist, fp, gb, sh, bf, fe, gr, tr>>

\* for (int i = 1; i < data->level; ++i) { filter; std::swap(front, back); }
ShadowHorizontal ==
    /\ ds.pc = "horizontal"
    /\ IF ds.i < ds.level
       THEN ds' = [ds EXCEPT
                     !.mem = [ds.mem EXCEPT ![ds.back] = ShadowFiltered(ds.mem[ds.front])],
                     !.front = ds.back, !.back = ds.front,
                     !.i = ds.i + 1]
       ELSE ds' = [ds EXCEPT !.pc = "flip"]
    /\ UNCHANGED <<slot, hist, fp, gb, sh, bf, fe, gr, tr>>

\* rasterXYFlip(front, back, stride, w, h, bbox, false); std::swap(front, back);
ShadowFlip ==
    /\ ds.pc = "flip"
    /\ ds' = [ds EXCEPT
                !.mem = [ds.mem EXCEPT ![ds.back] = ShadowFlipped(ds.mem[ds.front])],
                !.front = ds.back, !.back = ds.front,
                !.i = 0,
                !.pc = "vertical"]
    /\ UNCHANGED <<slot, hist, fp, gb, sh, bf, fe, gr, tr>>

\* for (int i = 0; i < data->level; ++i) { filter (flipped); std::swap(front, back); }
\* rasterXYFlip(front, back, stride, h, w, bbox, true); std::swap(cmp->image.buf32, back);
ShadowVertical ==
    /\ ds.pc = "vertical"
    /\ IF ds.i < ds.level
       THEN ds' = [ds EXCEPT
                     !.mem = [ds.mem EXCEPT ![ds.back] = ShadowFiltered(ds.mem[ds.front])],
                     !.front = ds.back, !.back = ds.front,
                     !.i = ds.i + 1]
       ELSE ds' = [ds EXCEPT
                     !.mem = [ds.mem EXCEPT ![ds.back] = ShadowFlipped(ds.mem[ds.front])],
                     !.image = ds.back, !.back = ds.image,
                     !.pc = "draw"]
    /\ UNCHANGED <<slot, hist, fp, gb, sh, bf, fe, gr, tr>>

\* The buffer the body is composited onto in indirect mode:
\* auto d = cmp->image.buf32 + ...
CompositeTarget(image, buf1) == image

\* if (direct) { _dropShadowShift(recoverSfc, cmp->image); swap(cmp->image.buf32,
\* buffer[0]->buf32); return true; }
\* rasterClear(surface[1]); _dropShadowShift(buffer[1], cmp->image); then the body
\* (buffer[0]) is composited over cmp->image.
ShadowDraw ==
    /\ ds.pc = "draw"
    /\ IF ds.direct
       THEN ds' = [ds EXCEPT
                     !.mem = [ds.mem EXCEPT ![ds.recover] =
                                ShiftBlended(ds.mem[ds.image], ds.mem[ds.recover])],
                     !.shiftDst = ds.recover,
                     !.image = ds.buf0, !.buf0 = ds.image,
                     !.pc = "done"]
       ELSE LET cleared == [ds.mem EXCEPT ![ds.surf1] = Clear]
                shifted == [cleared EXCEPT ![ds.buf1] =
                                ShiftCopied(cleared[ds.image], cleared[ds.buf1])]
                d == CompositeTarget(ds.image, ds.buf1)
            IN ds' = [ds EXCEPT
                        !.mem = [shifted EXCEPT ![d] = Over(shifted[ds.buf0], shifted[d])],
                        !.shiftDst = ds.buf1,
                        !.pc = "done"]
    /\ UNCHANGED <<slot, hist, fp, gb, sh, bf, fe, gr, tr>>

NextShadow ==
    \/ ShadowEnter \/ ShadowNoFilter \/ ShadowFirst \/ ShadowHorizontal
    \/ ShadowFlip \/ ShadowVertical \/ ShadowDraw

SpecShadow == InitShadow /\ [][NextShadow]_vars

\* C10: after an indirect drop shadow with blur and an on-canvas offset, the
\* buffer cmp->image points to is the one _dropShadowShift wrote the displaced
\* shadow into, and it holds the body composited over the blurred, displaced
\* shadow.
C10_IndirectBlurredShadowResult ==
    (ds.pc = "done" /\ ~ds.direct /\ ~ds.sigma0 /\ ~OutsideScreen(ds.offset, ds.w, ds.h)) =>
        /\ ds.image = ds.shiftDst
        /\ ds.mem[ds.image] = Pixels(TRUE, TRUE, 2 * ds.level, FALSE, TRUE, FALSE, FALSE)

InitSlot ==
    /\ \E t \in SlotTypes, n \in 1..MaxPairs :
         \E ks \in [1..n -> KindsOf(t)], vs \in [1..n -> Vals] :
            slot = [type |-> t,
                    pairs |-> [i \in 1..n |-> [obj |-> MkObj(ks[i], FieldOf(t), vs[i]), prop |-> NoProp]],
                    overridden |-> FALSE,
                    live |-> 0,
                    fault |-> FALSE]
    /\ hist = NoHist
    /\ fp = NoSampler
    /\ gb = NoBlur
    /\ ds = NoShadow
    /\ PixelsIdle

\* void LottieSlot::assign(LottieObject* target, bool byDefault)
Assign(target, byDefault) ==
    LET copy == CopyFlag(slot.overridden, byDefault)
        tval == target.fields[FieldOf(slot.type)]
        first == ~byDefault /\ hist.cycle # "assigns" /\ ~slot.overridden
    IN  /\ ~slot.fault
        /\ slot' = [slot EXCEPT
                      !.pairs = [i \in DOMAIN slot.pairs |-> AssignPair(slot.pairs[i], slot.type, target, copy)],
                      !.overridden = OverriddenAfterAssign(slot.overridden, byDefault),
                      !.live = IF copy THEN slot.live + Len(slot.pairs) ELSE slot.live]
        /\ hist' = [hist EXCEPT
                      !.op = "assign", !.byDefault = byDefault, !.tval = tval,
                      !.cycle = IF byDefault THEN "none"
                                ELSE IF hist.cycle = "assigns" THEN "assigns"
                                ELSE IF slot.overridden THEN "none" ELSE "assigns",
                      !.orig = IF first THEN [i \in DOMAIN slot.pairs |-> slot.pairs[i].obj] ELSE hist.orig,
                      !.dflt = IF byDefault /\ ~slot.overridden THEN <<tval>> ELSE hist.dflt]
        /\ UNCHANGED <<fp, gb, ds, sh, bf, fe, gr, tr>>

AssignAny ==
    \E k \in KindsOf(slot.type), v \in Vals, byDefault \in BOOLEAN :
        Assign(MkObj(k, FieldOf(slot.type), v), byDefault)

\* void LottieSlot::reset()
Reset ==
    /\ ~slot.fault
    /\ IF ~slot.overridden
       THEN slot' = slot
       ELSE slot' = [slot EXCEPT
                       !.pairs = [i \in DOMAIN slot.pairs |-> ResetPair(slot.pairs[i])],
                       !.overridden = FALSE,
                       !.live = slot.live - Cardinality(NonNull(slot.pairs)),
                       !.fault = \E i \in DOMAIN slot.pairs : slot.pairs[i].prop.null]
    /\ hist' = [hist EXCEPT
                  !.op = "reset",
                  !.cycle = IF hist.cycle = "assigns" THEN "assigns_reset" ELSE "none"]
    /\ UNCHANGED <<fp, gb, ds, sh, bf, fe, gr, tr>>

NextSlot == AssignAny \/ Reset

SpecSlot == InitSlot /\ [][NextSlot]_vars

Objs(s) == [i \in DOMAIN s.pairs |-> s.pairs[i].obj]

C3_DefaultAssignIsBaseline ==
    hist.dflt # <<>> =>
        IF slot.overridden
        THEN \A i \in DOMAIN slot.pairs :
                ~slot.pairs[i].prop.null /\ slot.pairs[i].prop.value = hist.dflt[1]
        ELSE \A i \in DOMAIN slot.pairs :
                slot.pairs[i].prop.null /\ FieldVals(slot)[i] = hist.dflt[1]

\* default assign, then an explicit assign of another value, then reset.
C3_Witness ==
    /\ hist.dflt # <<>>
    /\ hist.cycle = "assigns_reset"
    /\ hist.tval # hist.dflt[1]
    /\ FieldVals(slot)[1] = hist.dflt[1]

(***************************************************************************)
(* _shift, _dropShadowNoFilter, _dropShadowShift: the pixels copied.       *)
(*                                                                         *)
(* A surface is SurfW x SurfH pixels with stride SurfW; a pixel is named   *)
(* by its offset from buf32.  Every write of the copy loop is recorded     *)
(* with the offset it wrote, the offset it read and the weight it used.    *)
(***************************************************************************)
SurfW == RegionSize + 1
SurfH == RegionSize + 1

Regions ==
    {[minx |-> x0, miny |-> y0, maxx |-> x1, maxy |-> y1] :
        x0 \in 0..(SurfW - 1), x1 \in 1..SurfW, y0 \in 0..(SurfH - 1), y1 \in 1..SurfH}

\* uint8_t MULTIPLY(c, a): (c * a + 0xff) >> 8
MULTIPLY(c, a) == (c * a + 255) \div 256

\* The pointer _shift moves when the shadow starts before the surface edge
\* (*src -= offset) and the one it moves otherwise (*dst += offset).
ShiftedSrc(src, lo, off, stride) == IF lo + off < 0 THEN src - off * stride ELSE src
ShiftedDst(dst, lo, off, stride) == IF lo + off < 0 THEN dst ELSE dst + off * stride

ClippedSizeKept(size, lo, off, max) == size

\* if (size + min + offset > max) size -= (size + min + offset - max);
ClippedSize(size, lo, off, max) ==
    IF size + lo + off > max THEN size - (size + lo + off - max) ELSE size

\* static void _shift(dst, src, dstride, sstride, wmax, hmax, bbox, offset, size)
ShiftOf(dst, src, dstride, sstride, wmax, hmax, bbox, offset) ==
    [src |-> ShiftedSrc(ShiftedSrc(src, bbox.minx, offset[1], 1), bbox.miny, offset[2], sstride),
     dst |-> ShiftedDst(ShiftedDst(dst, bbox.minx, offset[1], 1), bbox.miny, offset[2], dstride),
     w |-> ClippedSize(bbox.maxx - bbox.minx, bbox.minx, offset[1], wmax),
     h |-> ClippedSize(bbox.maxy - bbox.miny, bbox.miny, offset[2], hmax)]

\* The double loop of _dropShadowNoFilter and the row loop of _dropShadowShift:
\* one write per (x, y) in size.w x size.h, from src + y * sstride + x to
\* dst + y * dstride + x.  "a" is MULTIPLY(opacity, A(*s2)); the pixel is
\* replaced (ALPHA_BLEND(color, a)) when !direct || a == 255 and interpolated
\* with the destination pixel otherwise.
CopyWrites(bbox, offset, dstride, sstride, dw, dh, opacity, alpha, direct) ==
    LET src0 == bbox.miny * sstride + bbox.minx
        dst0 == bbox.miny * dstride + bbox.minx
        sz == ShiftOf(dst0, src0, dstride, sstride, dw, dh, bbox, offset)
        a == MULTIPLY(opacity, alpha)
    IN {[d |-> sz.dst + y * dstride + x,
         s |-> sz.src + y * sstride + x,
         a |-> a,
         how |-> IF ~direct \/ a = 255 THEN "replace" ELSE "interpolate"] :
            x \in 0..(sz.w - 1), y \in 0..(sz.h - 1)}

InitShift ==
    /\ sh = NoShift
    /\ slot = NoSlot
    /\ hist = NoHist
    /\ fp = NoSampler
    /\ gb = NoBlur
    /\ ds = NoShadow
    /\ bf = NoFilter
    /\ fe = NoEffect
    /\ gr = NoGradient
    /\ tr = NoRange

Alphas == {0, 128, 255}

\* effectDropShadow up to the copy: the region, the offset (inside the guard
\* of line 592), the mode and the opacity; the source pixels have one alpha.
ShiftEnter ==
    /\ sh.pc = "idle"
    /\ \E bbox \in Regions, ox \in ShadowOffsets, oy \in ShadowOffsets,
          direct \in BOOLEAN, sigma0 \in BOOLEAN, alpha \in Alphas, opacity \in {128, 255} :
         /\ bbox.minx < bbox.maxx /\ bbox.miny < bbox.maxy
         /\ ~OutsideScreen(<<ox, oy>>, bbox.maxx - bbox.minx, bbox.maxy - bbox.miny)
         /\ sh' = [pc |-> "copy", bbox |-> bbox, offset |-> <<ox, oy>>, direct |-> direct,
                   sigma0 |-> sigma0, alpha |-> alpha,
                   opacity |-> IF direct THEN opacity ELSE 255,
                   shift |-> [src |-> 0, dst |-> 0, w |-> 0, h |-> 0],
                   writes |-> {}]
    /\ UNCHANGED <<slot, hist, fp, gb, ds, bf, fe, gr, tr>>

\* _dropShadowNoFilter(dst, src, ...) of the zero-sigma path, or _dropShadowShift
\* of the blur path; both surfaces are SurfW x SurfH with stride SurfW.
ShiftCopy ==
    /\ sh.pc = "copy"
    /\ sh' = [sh EXCEPT !.pc = "done",
                        !.shift = ShiftOf(sh.bbox.miny * SurfW + sh.bbox.minx,
                                          sh.bbox.miny * SurfW + sh.bbox.minx,
                                          SurfW, SurfW, SurfW, SurfH, sh.bbox, sh.offset),
                        !.writes = CopyWrites(sh.bbox, sh.offset, SurfW, SurfW, SurfW, SurfH,
                                              sh.opacity, sh.alpha, sh.direct)]
    /\ UNCHANGED <<slot, hist, fp, gb, ds, bf, fe, gr, tr>>

NextShift == ShiftEnter \/ ShiftCopy

SpecShift == InitShift /\ [][NextShift]_vars

\* The column and the row of a pixel of a surface, from its offset.
InSurface(i) == i >= 0 /\ i < SurfW * SurfH
ColOf(i) == i % SurfW
RowOf(i) == i \div SurfW
InRegion(bbox, i) ==
    /\ InSurface(i)
    /\ ColOf(i) >= bbox.minx /\ ColOf(i) < bbox.maxx
    /\ RowOf(i) >= bbox.miny /\ RowOf(i) < bbox.maxy

\* C11: at sigma = 0, in direct and indirect mode, every shadow pixel written
\* is computed from exactly one source pixel, that source pixel lies inside the
\* region, the written pixel lies at the source pixel's column and row plus the
\* offset, and the weight is opacity times the source pixel's alpha.
C11_NoFilterDisplacement ==
    (sh.pc = "done" /\ sh.sigma0) =>
        \A wr \in sh.writes :
            /\ InRegion(sh.bbox, wr.s)
            /\ InSurface(wr.d)
            /\ ColOf(wr.d) = ColOf(wr.s) + sh.offset[1]
            /\ RowOf(wr.d) = RowOf(wr.s) + sh.offset[2]
            /\ wr.a = MULTIPLY(sh.opacity, sh.alpha)

\* What the four buffers hold when effectDropShadow is entered.
ShadowEntryMem ==
    [b \in ShadowBuffers |-> CASE b = "A" -> Body [] b = "R" -> Canvas [] OTHER -> Leftover]

\* C12: with |offset.x| >= region width or |offset.y| >= region height,
\* effectDropShadow returns with the pixels of the compositor image, of the
\* recovery surface and of both scratch surfaces, and the three buffer
\* pointers, as they were on entry, in either mode and for any sigma.
C12_OffCanvasNoOp ==
    (ds.pc = "done" /\ (Abs(ds.offset[1]) >= ds.w \/ Abs(ds.offset[2]) >= ds.h)) =>
        /\ ds.mem = ShadowEntryMem
        /\ ds.image = NoShadow.image
        /\ ds.buf0 = NoShadow.buf0
        /\ ds.buf1 = NoShadow.buf1

\* A direct, blurred shadow whose horizontal offset equals the region width
\* returned.
C12_Witness ==
    /\ ds.pc = "done"
    /\ ds.direct /\ ~ds.sigma0
    /\ Abs(ds.offset[1]) = ds.w /\ ds.offset[2] = 0

(***************************************************************************)
(* Effect parameters: the update step of the drop shadow and of the fill,  *)
(* and effectFill.                                                         *)
(***************************************************************************)
EffectKinds == {"DropShadow", "Fill"}

\* effectDropShadowUpdate: if (params->color[3] == 0) { params->valid = false;
\* return; } ... params->valid = true;
DropShadowValid(alpha) == alpha # 0

\* effectFillUpdate: params->valid = true;
FillValid(alpha) == TRUE

ValidAfterUpdate(kind, alpha) ==
    IF kind = "DropShadow" THEN DropShadowValid(alpha) ELSE FillValid(alpha)

FillKeepsCmpValid(direct, valid) == valid

\* effectFill: cmp->valid = true in the direct branch only.
FillCmpValid(direct, valid) == IF direct THEN TRUE ELSE valid

\* The pixels effectFill writes: the direct branch writes through dbuffer =
\* cmp->recoverSfc->buf32 + ..., advanced by cmp->image.stride per row; the
\* other branch writes through dbuffer = cmp->image.buf32 + ...
FillWrites(bbox, direct, imageStride, recoverStride) ==
    LET w == bbox.maxx - bbox.minx
        h == bbox.maxy - bbox.miny
    IN IF direct
       THEN {[buf |-> "recoverSfc",
              i |-> (bbox.miny * recoverStride + bbox.minx) + y * imageStride + x] :
                x \in 0..(w - 1), y \in 0..(h - 1)}
       ELSE {[buf |-> "image",
              i |-> (bbox.miny * imageStride + bbox.minx) + y * imageStride + x] :
                x \in 0..(w - 1), y \in 0..(h - 1)}

InitEffect ==
    /\ fe = NoEffect
    /\ slot = NoSlot
    /\ hist = NoHist
    /\ fp = NoSampler
    /\ gb = NoBlur
    /\ ds = NoShadow
    /\ sh = NoShift
    /\ bf = NoFilter
    /\ gr = NoGradient
    /\ tr = NoRange

\* effectDropShadowUpdate / effectFillUpdate on an effect of any colour alpha.
EffectUpdate ==
    /\ \E kind \in EffectKinds, alpha \in Alphas :
         fe' = [pc |-> "updated", kind |-> kind, alpha |-> alpha,
                valid |-> ValidAfterUpdate(kind, alpha)]
    /\ UNCHANGED <<slot, hist, fp, gb, ds, sh, bf, gr, tr>>

\* effectFill(cmp, params, direct) on a valid fill effect, with cmp->valid
\* either way before the call.
FillApply ==
    /\ fe.pc = "updated"
    /\ fe.kind = "Fill"
    /\ fe.valid
    /\ \E bbox \in Regions, direct \in BOOLEAN, cmpValid \in BOOLEAN :
         /\ bbox.minx < bbox.maxx /\ bbox.miny < bbox.maxy
         /\ fe' = [pc |-> "applied", kind |-> fe.kind, alpha |-> fe.alpha, valid |-> fe.valid,
                   bbox |-> bbox, direct |-> direct,
                   cmpValid0 |-> cmpValid,
                   cmpValid |-> FillCmpValid(direct, cmpValid),
                   writes |-> FillWrites(bbox, direct, SurfW, SurfW)]
    /\ UNCHANGED <<slot, hist, fp, gb, ds, sh, bf, gr, tr>>

NextEffect == EffectUpdate \/ FillApply

SpecEffect == InitEffect /\ [][NextEffect]_vars

\* C13: after the update step, an effect whose colour alpha is 0 has
\* valid = false, for a drop shadow and for a fill alike.
C13_TransparentEffectInvalid ==
    (fe.pc = "updated" /\ fe.alpha = 0) => ~fe.valid

\* C18: effectFill with direct = true sets cmp->valid and writes pixels of the
\* recovery surface only; with direct = false it leaves cmp->valid as it was
\* and writes pixels of the compositor image only.
C18_FillExclusivity ==
    fe.pc = "applied" =>
        IF fe.direct
        THEN /\ fe.cmpValid
             /\ \A wr \in fe.writes : wr.buf = "recoverSfc" /\ InRegion(fe.bbox, wr.i)
        ELSE /\ fe.cmpValid = fe.cmpValid0
             /\ \A wr \in fe.writes : wr.buf = "image" /\ InRegion(fe.bbox, wr.i)

\* A direct fill of the whole surface ran on a compositor whose valid flag
\* was clear.
C18_Witness ==
    /\ fe.pc = "applied"
    /\ fe.direct /\ ~fe.cmpValid0
    /\ Cardinality(fe.writes) = SurfW * SurfH

(***************************************************************************)
(* LottieGradient::populate: the merge of the colour and the alpha track.  *)
(*                                                                         *)
(* A colour stop is [offset, r] (g and b are handled as r is), an alpha    *)
(* stop is [offset, a]; offsets are whole numbers of 1/MaxOffset.  The     *)
(* input array holds the colour stops (4 floats each) and then the alpha   *)
(* stops (2 floats each); cidx and aidx are kept here as stop numbers.     *)
(***************************************************************************)
StopValues == {0, 255}

\* The non-decreasing tracks of up to MaxStops stops.
Tracks ==
    UNION {{t \in [1..n -> [offset : 0..MaxOffset, v : StopValues]] :
              \A i \in 1..(n - 1) : t[i].offset <= t[i + 1].offset} : n \in 0..MaxStops}

\* tvg::lerp<uint8_t>(start, end, t) with t = num / den:
\* clamp(int(start + (end - start) * t), 0, 255)
LerpU8(start, end, num, den) ==
    LET x == (start * den + (end - start) * num) \div den
    IN IF x < 0 THEN 0 ELSE IF x > 255 THEN 255 ELSE x

LastOf(out) == out[Len(out)]

\* One iteration of the merge loop, for cidx < clast and aidx < input->count.
MergeStep(colors, alphas, ci, ai, out) ==
    LET c == colors[ci]
        al == alphas[ai]
    IN IF c.offset = al.offset
       THEN [ci |-> ci + 1, ai |-> ai + 1,
             out |-> Append(out, [offset |-> c.offset, r |-> c.v, a |-> al.v])]
       ELSE IF c.offset < al.offset
       THEN [ci |-> ci + 1, ai |-> ai,
             out |-> Append(out,
                [offset |-> c.offset, r |-> c.v,
                 a |-> IF Len(out) > 0
                       THEN LerpU8(LastOf(out).a, al.v, c.offset - LastOf(out).offset,
                                   al.offset - LastOf(out).offset)
                       ELSE al.v])]
       ELSE [ci |-> ci, ai |-> ai + 1,
             out |-> Append(out,
                [offset |-> al.offset, a |-> al.v,
                 r |-> IF Len(out) > 0
                       THEN LerpU8(LastOf(out).r, c.v, al.offset - LastOf(out).offset,
                                   c.offset - LastOf(out).offset)
                       ELSE c.v])]

\* for (i = 0; i < color.input->count; ++i) {
\*     if (cidx == clast || aidx == color.input->count) break; ... }
RECURSIVE MergeLoop(_, _, _, _, _, _)
MergeLoop(colors, alphas, ci, ai, out, i) ==
    IF i >= 4 * Len(colors) + 2 * Len(alphas) THEN [ci |-> ci, ai |-> ai, out |-> out]
    ELSE IF ci > Len(colors) \/ ai > Len(alphas) THEN [ci |-> ci, ai |-> ai, out |-> out]
    ELSE LET m == MergeStep(colors, alphas, ci, ai, out)
         IN MergeLoop(colors, alphas, m.ci, m.ai, m.out, i + 1)

RECURSIVE ColorRemainsOpaque(_, _, _)
ColorRemainsOpaque(colors, ci, out) ==
    IF ci > Len(colors) THEN out
    ELSE ColorRemainsOpaque(colors, ci + 1,
            Append(out, [offset |-> colors[ci].offset, r |-> colors[ci].v, a |-> 255]))

\* color remains: while (cidx + 3 < clast) { ... }
RECURSIVE ColorRemains(_, _, _)
ColorRemains(colors, ci, out) ==
    IF ci > Len(colors) THEN out
    ELSE ColorRemains(colors, ci + 1,
            Append(out, [offset |-> colors[ci].offset, r |-> colors[ci].v,
                         a |-> IF Len(out) > 0 THEN LastOf(out).a ELSE 255]))

\* alpha remains: while (aidx < color.input->count) { ... }
RECURSIVE AlphaRemains(_, _, _)
AlphaRemains(alphas, ai, out) ==
    IF ai > Len(alphas) THEN out
    ELSE AlphaRemains(alphas, ai + 1,
            Append(out, [offset |-> alphas[ai].offset, a |-> alphas[ai].v,
                         r |-> IF Len(out) > 0 THEN LastOf(out).r ELSE 255]))

PopulateMergeOnly(colors, alphas) == MergeLoop(colors, alphas, 1, 1, <<>>, 0).out

\* uint32_t LottieGradient::populate(ColorStop& color, size_t count): the
\* output array; the returned count is its length.
Populate(colors, alphas) ==
    LET m == MergeLoop(colors, alphas, 1, 1, <<>>, 0)
    IN AlphaRemains(alphas, m.ai, ColorRemains(colors, m.ci, m.out))

InitGradient ==
    /\ gr = NoGradient
    /\ slot = NoSlot
    /\ hist = NoHist
    /\ fp = NoSampler
    /\ gb = NoBlur
    /\ ds = NoShadow
    /\ sh = NoShift
    /\ bf = NoFilter
    /\ fe = NoEffect
    /\ tr = NoRange

\* The parser has filled color.input with a colour and an alpha track.
GradientParse ==
    /\ gr.pc = "idle"
    /\ \E colors \in Tracks, alphas \in Tracks :
         gr' = [pc |-> "parsed", colors |-> colors, alphas |-> alphas, output |-> <<>>]
    /\ UNCHANGED <<slot, hist, fp, gb, ds, sh, bf, fe, tr>>

GradientPopulate ==
    /\ gr.pc = "parsed"
    /\ gr' = [gr EXCEPT !.pc = "populated", !.output = Populate(gr.colors, gr.alphas)]
    /\ UNCHANGED <<slot, hist, fp, gb, ds, sh, bf, fe, tr>>

NextGradient == GradientParse \/ GradientPopulate

SpecGradient == InitGradient /\ [][NextGradient]_vars

\* The offsets of a track or of the output, as a sequence, a set and a bag.
Offsets(t) == [i \in DOMAIN t |-> t[i].offset]
OffsetSet(t) == {t[i].offset : i \in DOMAIN t}
OffsetBag(t) ==
    [o \in OffsetSet(t) |-> Cardinality({i \in DOMAIN t : t[i].offset = o})]
NonDecreasing(q) == \A i \in 1..(Len(q) - 1) : q[i] <= q[i + 1]
MinOf(a, b) == IF a < b THEN a ELSE b
MaxOf(a, b) == IF a > b THEN a ELSE b

\* The offsets of the output are non-decreasing and run from the smaller of
\* the first offsets to the larger of the last offsets of the two tracks.
MergeOrdered(colors, alphas, out) ==
    /\ NonDecreasing(Offsets(out))
    /\ (Len(colors) > 0 /\ Len(alphas) > 0) =>
          /\ out[1].offset = MinOf(colors[1].offset, alphas[1].offset)
          /\ LastOf(out).offset = MaxOf(LastOf(colors).offset, LastOf(alphas).offset)

\* C14 as stated: the output is ordered and spans the two tracks, every input
\* offset appears in it exactly once, and the count is the size of the union
\* of the offsets.
C14_MergeOffsetsOnce ==
    gr.pc = "populated" =>
        /\ MergeOrdered(gr.colors, gr.alphas, gr.output)
        /\ \A o \in OffsetSet(gr.colors) \cup OffsetSet(gr.alphas) :
              Cardinality({i \in DOMAIN gr.output : gr.output[i].offset = o}) = 1
        /\ Len(gr.output) = Cardinality(OffsetSet(gr.colors) \cup OffsetSet(gr.alphas))

\* C14, amended: the output is ordered and spans the two tracks; an offset
\* appears in it as often as in the track that holds it more often (a colour
\* stop and an alpha stop of equal offset are merged into one stop, stops of
\* equal offset inside one track are all kept), so the count is the size of
\* that union with multiplicities, and the size of the plain union when both
\* tracks are strictly increasing.
C14_MergeOffsetsMerged ==
    gr.pc = "populated" =>
        /\ MergeOrdered(gr.colors, gr.alphas, gr.output)
        /\ OffsetSet(gr.output) = OffsetSet(gr.colors) \cup OffsetSet(gr.alphas)
        /\ \A o \in OffsetSet(gr.output) :
              CopiesIn(o, OffsetBag(gr.output)) =
                  MaxOf(CopiesIn(o, OffsetBag(gr.colors)), CopiesIn(o, OffsetBag(gr.alphas)))
        /\ (Cardinality(OffsetSet(gr.colors)) = Len(gr.colors)
              /\ Cardinality(OffsetSet(gr.alphas)) = Len(gr.alphas)) =>
                 Len(gr.output) = Cardinality(OffsetSet(gr.colors) \cup OffsetSet(gr.alphas))

\* Two strictly increasing two-stop tracks that share one offset were merged
\* into three stops.
C14_Witness ==
    /\ gr.pc = "populated"
    /\ Len(gr.colors) = 2 /\ Len(gr.alphas) = 2
    /\ Offsets(gr.colors) = <<0, 1>> /\ Offsets(gr.alphas) = <<1, 2>>
    /\ Len(gr.output) = 3

(***************************************************************************)
(* LottieTextRange::factor                                                 *)
(*                                                                         *)
(* A float is a fraction [n, d] in lowest terms with d > 0, so that range  *)
(* bounds that are not whole numbers, the rounding of nearbyintf and the   *)
(* divisions are exact.                                                    *)
(***************************************************************************)
RECURSIVE GCD(_, _)
GCD(a, b) == IF b = 0 THEN a ELSE GCD(b, a % b)

Rat(n, d) ==
    LET sn == IF d < 0 THEN 0 - n ELSE n
        sd == IF d < 0 THEN 0 - d ELSE d
        g == GCD(Abs(sn), sd)
    IN [n |-> sn \div g, d |-> sd \div g]

Whole(k) == [n |-> k, d |-> 1]
RAdd(a, b) == Rat(a.n * b.d + b.n * a.d, a.d * b.d)
RSub(a, b) == Rat(a.n * b.d - b.n * a.d, a.d * b.d)
RMul(a, b) == Rat(a.n * b.n, a.d * b.d)
RDiv(a, b) == Rat(a.n * b.d, a.d * b.n)
RLt(a, b) == a.n * b.d < b.n * a.d
RLe(a, b) == a.n * b.d <= b.n * a.d
RMin(a, b) == IF RLt(b, a) THEN b ELSE a

\* std::floor
RFloor(a) == a.n \div a.d

\* nearbyintf in the default rounding mode: to nearest, ties to even
NearbyInt(a) ==
    LET fl == a.n \div a.d
        rem == a.n - fl * a.d
    IN IF 2 * rem < a.d THEN fl
       ELSE IF 2 * rem > a.d THEN fl + 1
       ELSE IF fl % 2 = 0 THEN fl ELSE fl + 1

\* tvg::clamp(v, min, max)
RClamp(v, lo, hi) == IF RLt(v, lo) THEN lo ELSE IF RLt(hi, v) THEN hi ELSE v

Shapes == {"Square", "RampUp", "RampDown", "Triangle", "Round", "Smooth"}
Units == {"Percent", "Index"}

\* case Square
SquareFactor(start, end, idx, smoothness) ==
    IF smoothness = 0
    THEN IF idx >= NearbyInt(start) /\ idx < NearbyInt(end) THEN Whole(1) ELSE Whole(0)
    ELSE LET diff == RSub(Whole(idx), start)
             f0 == IF idx >= RFloor(start)
                   THEN IF RLt(diff, Whole(0)) THEN RAdd(RMin(end, Whole(1)), diff)
                        ELSE RSub(end, Whole(idx))
                   ELSE Whole(0)
             sm == Rat(smoothness, 100)
         IN RDiv(RSub(f0, RMul(RSub(Whole(1), sm), Rat(1, 2))), sm)

\* (0.5f + idx - start) / (end - start)
RampOf(start, end, idx) == RDiv(RSub(RAdd(Rat(1, 2), Whole(idx)), start), RSub(end, start))

\* tvg::clamp(idx + (0.5f - start), 0.0f, end - start)
ClampedIdx(start, end, idx) ==
    RClamp(RAdd(Whole(idx), RSub(Rat(1, 2), start)), Whole(0), RSub(end, start))

\* case Round: sqrtf(1 - t * t / (range * range)) is 1 at t = 0, 0 at
\* t = +-range and lies between them otherwise; 1 - |t| / |range| stands for it.
RoundFactor(start, end, idx) ==
    LET range == RMul(Rat(1, 2), RSub(end, start))
        t == RSub(ClampedIdx(start, end, idx), range)
        u == RDiv(t, range)
    IN RSub(Whole(1), IF RLt(u, Whole(0)) THEN RSub(Whole(0), u) ELSE u)

\* case Smooth: 0.5 * (1 + cos(pi * (1 + 2x))) with x = idx / (end - start) is
\* 0 at x = 0 and x = 1, 1 at x = 1/2, 1/2 at x = 1/4 and 3/4, and lies in
\* [0, 1] throughout; 1 - |1 - 2x| stands for it.
SmoothFactor(start, end, idx) ==
    LET x == RDiv(ClampedIdx(start, end, idx), RSub(end, start))
        y == RSub(Whole(1), RMul(Whole(2), x))
    IN RSub(Whole(1), IF RLt(y, Whole(0)) THEN RSub(Whole(0), y) ELSE y)

\* switch (this->shape) on the converted bounds
ShapeFactor(shape, start, end, idx, smoothness) ==
    CASE shape = "Square" -> SquareFactor(start, end, idx, smoothness)
      [] shape = "RampUp" ->
            IF start = end THEN (IF RLe(end, Whole(idx)) THEN Whole(1) ELSE Whole(0))
            ELSE RampOf(start, end, idx)
      [] shape = "RampDown" ->
            IF start = end THEN (IF RLe(end, Whole(idx)) THEN Whole(0) ELSE Whole(1))
            ELSE RSub(Whole(1), RampOf(start, end, idx))
      [] shape = "Triangle" ->
            LET f == IF start = end THEN Whole(0) ELSE RMul(Whole(2), RampOf(start, end, idx))
            IN IF RLt(f, Whole(1)) THEN f ELSE RSub(Whole(2), f)
      [] shape = "Round" -> IF start = end THEN Whole(0) ELSE RoundFactor(start, end, idx)
      [] shape = "Smooth" -> IF start = end THEN Whole(0) ELSE SmoothFactor(start, end, idx)

\* len - range truncated to int: the divisor of the random start
RandomDivisor(unit, totalLen, start, end) ==
    LET x == RSub(Whole(IF unit = "Percent" THEN 100 ELSE totalLen), RSub(end, start))
    IN IF x.n >= 0 THEN x.n \div x.d ELSE 0 - ((0 - x.n) \div x.d)

\* start and end after the offset, the random start and the unit conversion
RangeBounds(unit, startV, endV, offsetV, totalLen, random) ==
    LET s0 == RAdd(startV, offsetV)
        e0 == RAdd(endV, offsetV)
        m == RandomDivisor(unit, totalLen, s0, e0)
        s1 == IF random > 0 THEN Whole(random % Abs(m)) ELSE s0
        e1 == IF random > 0 THEN RAdd(s1, RSub(e0, s0)) ELSE e0
        divisor == IF unit = "Percent" THEN Rat(100, totalLen) ELSE Whole(1)
    IN [start |-> RDiv(s1, divisor), end |-> RDiv(e1, divisor)]

\* return f * this->maxAmount(frameNo) * 0.01f
ScaledByAmount(f, maxAmount) == RMul(RMul(f, Whole(maxAmount)), Rat(1, 100))

\* What interpolator->progress(f) may return.
EaseOutputs(f) == {f, Rat(0 - 1, 2), Rat(3, 2)}

\* The property values of a text range: start, end and offset in quarters (of
\* an index, or of 25 percent).
RangeValue(unit, q) == IF unit = "Percent" THEN Whole(25 * q) ELSE Rat(q, 4)

InitRange ==
    /\ \E shape \in Shapes, unit \in Units, sq \in 0..MaxQuarter, eq \in 0..MaxQuarter,
          oq \in {0, 1}, smoothness \in {0, 50}, ease \in {0, 50}, maxAmount \in {100, 0 - 100},
          random \in {0, 3} :
         tr = [pc |-> "set", shape |-> shape, unit |-> unit,
               start |-> RangeValue(unit, sq), end |-> RangeValue(unit, eq),
               offset |-> RangeValue(unit, oq), smoothness |-> smoothness,
               minEase |-> ease, maxEase |-> ease, maxAmount |-> maxAmount, random |-> random,
               totalLen |-> 0, idx |-> 0, from |-> Whole(0), to |-> Whole(0),
               result |-> Whole(0)]
    /\ slot = NoSlot
    /\ hist = NoHist
    /\ fp = NoSampler
    /\ gb = NoBlur
    /\ ds = NoShadow
    /\ sh = NoShift
    /\ bf = NoFilter
    /\ fe = NoEffect
    /\ gr = NoGradient

\* float LottieTextRange::factor(float frameNo, float totalLen, float idx)
Factor ==
    /\ tr.pc = "set"
    /\ \E totalLen \in 1..MaxIdx, idx \in 0..MaxIdx :
         IF tr.random > 0 /\ RandomDivisor(tr.unit, totalLen, RAdd(tr.start, tr.offset),
                                           RAdd(tr.end, tr.offset)) = 0
         THEN tr' = [tr EXCEPT !.pc = "divzero", !.totalLen = totalLen, !.idx = idx]
         ELSE LET b == RangeBounds(tr.unit, tr.start, tr.end, tr.offset, totalLen, tr.random)
                  f1 == RClamp(ShapeFactor(tr.shape, b.start, b.end, idx, tr.smoothness),
                               Whole(0), Whole(1))
              IN \E f2 \in (IF tr.minEase # 0 \/ tr.maxEase # 0 THEN EaseOutputs(f1) ELSE {f1}) :
                    tr' = [tr EXCEPT !.pc = "done", !.totalLen = totalLen, !.idx = idx,
                                     !.from = b.start, !.to = b.end,
                                     !.result = ScaledByAmount(RClamp(f2, Whole(0), Whole(1)),
                                                               tr.maxAmount)]
    /\ UNCHANGED <<slot, hist, fp, gb, ds, sh, bf, fe, gr>>

NextRange == Factor

SpecRange == InitRange /\ [][NextRange]_vars

\* C16: for shape Square with smoothness 0, no randomisation, zero eases and
\* maxAmount 100, the factor is exactly 1 for start <= idx < end and exactly 0
\* for every other idx, start and end being the converted bounds, whole
\* numbers or not.
C16_SquareHardStep ==
    (tr.pc = "done" /\ tr.shape = "Square" /\ tr.smoothness = 0 /\ tr.random = 0
        /\ tr.minEase = 0 /\ tr.maxEase = 0 /\ tr.maxAmount = 100) =>
        tr.result = IF RLe(tr.from, Whole(tr.idx)) /\ RLt(Whole(tr.idx), tr.to)
                    THEN Whole(1) ELSE Whole(0)

\* C17: for every shape and every value of the properties, the factor returned
\* lies in [0, 1].
C17_FactorInUnitInterval ==
    tr.pc = "done" => (RLe(Whole(0), tr.result) /\ RLe(tr.result, Whole(1)))

(***************************************************************************)
(* _gaussianFilter: one box filter pass over one row                       *)
(*                                                                         *)
(* The four channels of a pixel go through the same statements, so a row   *)
(* is modelled by one channel.  acc * iarr is a float product: iarr is the *)
(* float nearest to 1 / (2d + 1), the product is rounded to 24 significant *)
(* bits and the conversion to uint8_t drops the fraction.                  *)
(***************************************************************************)
RECURSIVE Pow2(_)
Pow2(n) == IF n = 0 THEN 1 ELSE 2 * Pow2(n - 1)

\* The smallest k with n <= 2^k
RECURSIVE Log2Ceil(_)
Log2Ceil(n) == IF n <= 1 THEN 0 ELSE 1 + Log2Ceil((n + 1) \div 2)

\* iarr = 1.0f / (dimension + dimension + 1) as mantissa m and exponent e:
\* iarr = m * 2^-e with 2^23 <= m < 2^24, rounded to nearest
Iarr(dimension) ==
    LET n == dimension + dimension + 1
        k == Log2Ceil(n)
    IN [m |-> (Pow2(24 + k) + n) \div (2 * n), e |-> 23 + k]

\* The number of low bits a product loses when it is rounded to a float
RECURSIVE LostBits(_)
LostBits(p) == IF p < Pow2(24) THEN 0 ELSE 1 + LostBits(p \div 2)

\* p rounded to 24 significant bits, to nearest, ties to even
RoundToFloat(p) ==
    LET s == LostBits(p)
        q == p \div Pow2(s)
        rem == p % Pow2(s)
        up == s > 0 /\ (2 * rem > Pow2(s) \/ (2 * rem = Pow2(s) /\ q % 2 = 1))
    IN (IF up THEN q + 1 ELSE q) * Pow2(s)

\* static_cast<uint8_t>(acc * iarr)
Scaled(acc, dimension) ==
    (RoundToFloat(acc * Iarr(dimension).m) \div Pow2(Iarr(dimension).e)) % 256

\* The % of C++ truncates towards zero
CRem(a, b) == IF a >= 0 THEN a % b ELSE 0 - ((0 - a) % b)

GaussianEdgeWrap(end, idx) ==
    LET r == CRem(idx, end + 1) IN IF r < 0 THEN (end + 1) + r ELSE r

GaussianEdgeExtend(end, idx) == IF idx < 0 THEN 0 ELSE IF idx > end THEN end ELSE idx

\* border 1 is Wrap, border 0 is Duplicate
GaussianRemap(border, end, idx) ==
    IF border = 1 THEN GaussianEdgeWrap(end, idx) ELSE GaussianEdgeExtend(end, idx)

\* //initial accumulation: for (int x = l; x < r; ++x) acc += src[remap(x)]
RECURSIVE InitialAccumulation(_, _, _, _, _)
InitialAccumulation(src, border, end, x, r) ==
    IF x >= r THEN 0
    ELSE src[GaussianRemap(border, end, x) + 1] + InitialAccumulation(src, border, end, x + 1, r)

Rows == UNION {[1..w -> 0..MaxShade] : w \in 1..SurfW}

InitFilter ==
    /\ \E src \in Rows, dimension \in 0..MaxRadius, border \in {0, 1} :
         bf = [pc |-> "entered", src |-> src, w |-> Len(src), dimension |-> dimension,
               border |-> border, l |-> 0, r |-> 0, acc |-> 0, x |-> 0, dst |-> <<>>]
    /\ slot = NoSlot
    /\ hist = NoHist
    /\ fp = NoSampler
    /\ gb = NoBlur
    /\ ds = NoShadow
    /\ sh = NoShift
    /\ fe = NoEffect
    /\ gr = NoGradient
    /\ tr = NoRange

\* lines 264 to 275 of one row: l, r, acc and the initial accumulation
GaussianAccumulate ==
    /\ bf.pc = "entered"
    /\ bf' = [bf EXCEPT !.pc = "filtering",
                        !.l = 0 - (bf.dimension + 1),
                        !.r = bf.dimension,
                        !.acc = InitialAccumulation(bf.src, bf.border, bf.w - 1,
                                                    0 - (bf.dimension + 1), bf.dimension)]
    /\ UNCHANGED <<slot, hist, fp, gb, ds, sh, fe, gr, tr>>

\* One iteration of the //perform filtering loop
GaussianSlide ==
    /\ bf.pc = "filtering"
    /\ bf.x < bf.w
    /\ LET end == bf.w - 1
           acc == bf.acc + bf.src[GaussianRemap(bf.border, end, bf.r) + 1]
                         - bf.src[GaussianRemap(bf.border, end, bf.l) + 1]
       IN bf' = [bf EXCEPT !.acc = acc,
                           !.dst = Append(bf.dst, Scaled(acc, bf.dimension)),
                           !.x = bf.x + 1, !.r = bf.r + 1, !.l = bf.l + 1,
                           !.pc = IF bf.x + 1 < bf.w THEN "filtering" ELSE "done"]
    /\ UNCHANGED <<slot, hist, fp, gb, ds, sh, fe, gr, tr>>

NextFilter == GaussianAccumulate \/ GaussianSlide

SpecFilter == InitFilter /\ [][NextFilter]_vars

\* The sum of the 2d + 1 samples of the window centred on column x (from 0),
\* each index remapped as the claim describes: clamped to [0, w-1] for
\* Duplicate, the non-negative remainder modulo w for Wrap.
ReferenceRemap(border, w, idx) ==
    IF border = 1 THEN idx % w
    ELSE IF idx < 0 THEN 0 ELSE IF idx > w - 1 THEN w - 1 ELSE idx

RECURSIVE WindowSum(_, _, _, _)
WindowSum(src, border, from, to) ==
    IF from > to THEN 0
    ELSE src[ReferenceRemap(border, Len(src), from) + 1] + WindowSum(src, border, from + 1, to)

UniformRow == \A i \in 1..bf.w : bf.src[i] = bf.src[1]

\* C15: one filter pass over a row whose pixels are all equal writes that same
\* value to every output pixel, for every radius d >= 0 and either border
\* policy.
C15_FlatFieldBlur ==
    (bf.pc \in {"filtering", "done"} /\ UniformRow) =>
        \A i \in 1..Len(bf.dst) : bf.dst[i] = bf.src[1]

\* The part of C20 about the accumulator: after the iteration for column x
\* the accumulator is the sum of the 2d + 1 remapped samples around x.
AccumulatorIsWindowSum ==
    (bf.pc \in {"filtering", "done"} /\ bf.x > 0) =>
        bf.acc = WindowSum(bf.src, bf.border, (bf.x - 1) - bf.dimension, (bf.x - 1) + bf.dimension)

\* C20: every output channel written at column x equals the floor of the sum
\* of the 2d + 1 remapped samples around x divided by 2d + 1, and the running
\* accumulator equals that sum.
C20_BoxFilterReference ==
    /\ AccumulatorIsWindowSum
    /\ bf.pc \in {"filtering", "done"} =>
          \A i \in 1..Len(bf.dst) :
             bf.dst[i] = WindowSum(bf.src, bf.border, (i - 1) - bf.dimension,
                                   (i - 1) + bf.dimension) \div (2 * bf.dimension + 1)

(***************************************************************************)
(* _trintone: the tritone remap of one luma value                          *)
(*                                                                         *)
(* A 32-bit colour is the sequence of its four bytes, lowest first; join   *)
(* puts 255 in the alpha byte, the highest.                                *)
(***************************************************************************)
Channels == {0, 128, 255}
Join(c1, c2, c3, a) == <<c1, c2, c3, a>>
TritoneColors == {Join(c[1], c[2], c[3], 255) : c \in [1..3 -> Channels]}
Lumas == {0, 64, 127, 128, 129, 255}

\* ALPHA_BLEND(c, a): every byte of c scaled by (a + 1) / 256
ALPHA_BLEND(c, a) == [i \in 1..4 |-> (c[i] * (a + 1)) \div 256]

\* operator+ of two uint32_t: bytes add with carry, the last carry is lost
RECURSIVE AddBytes(_, _, _, _)
AddBytes(x, y, i, carry) ==
    IF i > 4 THEN <<>>
    ELSE <<(x[i] + y[i] + carry) % 256>> \o AddBytes(x, y, i + 1, (x[i] + y[i] + carry) \div 256)

Add32(x, y) == AddBytes(x, y, 1, 0)

StdMin(a, b) == IF b < a THEN b ELSE a
StdMax(a, b) == IF a < b THEN b ELSE a

\* auto a = std::min(l * 2, 255)
LowWeight(l) == StdMin(l * 2, 255)

\* auto a = 2 * std::max(0, l - 128)
HighWeightFromBelow(l) == 2 * StdMax(0, l - 127)
HighWeight(l) == 2 * StdMax(0, l - 128)

\* The formula of the l < 128 branch
TritoneLow(s, m, h, l) == Add32(ALPHA_BLEND(s, 255 - LowWeight(l)), ALPHA_BLEND(m, LowWeight(l)))

\* The formula of the l >= 128 branch
TritoneHigh(s, m, h, l) == Add32(ALPHA_BLEND(m, 255 - HighWeight(l)), ALPHA_BLEND(h, HighWeight(l)))

Trintone(s, m, h, l) == IF l < 128 THEN TritoneLow(s, m, h, l) ELSE TritoneHigh(s, m, h, l)

InitTritone ==
    /\ \E s \in TritoneColors, m \in TritoneColors, h \in TritoneColors :
         fe = [pc |-> "joined", shadow |-> s, midtone |-> m, highlight |-> h,
               l |-> 0, out |-> Join(0, 0, 0, 0)]
    /\ slot = NoSlot
    /\ hist = NoHist
    /\ fp = NoSampler
    /\ gb = NoBlur
    /\ ds = NoShadow
    /\ sh = NoShift
    /\ bf = NoFilter
    /\ gr = NoGradient
    /\ tr = NoRange

\* _trintone(shadow, midtone, highlight, luma(src)) for one pixel
TritoneRemap ==
    /\ fe.pc = "joined"
    /\ \E l \in Lumas :
         fe' = [fe EXCEPT !.pc = "remapped", !.l = l,
                          !.out = Trintone(fe.shadow, fe.midtone, fe.highlight, l)]
    /\ UNCHANGED <<slot, hist, fp, gb, ds, sh, bf, gr, tr>>

NextTritone == TritoneRemap

SpecTritone == InitTritone /\ [][NextTritone]_vars

\* C19: for every shadow, midtone and highlight, the formula of the l < 128
\* branch evaluated at l = 128 and the formula of the l >= 128 branch
\* evaluated at l = 128 give the same colour, and that colour is the midtone.
C19_TritoneContinuity ==
    (fe.pc = "remapped" /\ fe.l = 128) =>
        /\ TritoneLow(fe.shadow, fe.midtone, fe.highlight, 128) = fe.midtone
        /\ TritoneHigh(fe.shadow, fe.midtone, fe.highlight, 128) = fe.midtone
        /\ fe.out = fe.midtone

\* A pixel of luma 128 was remapped with three different colours.
C19_Witness ==
    /\ fe.pc = "remapped"
    /\ fe.l = 128
    /\ fe.shadow # fe.midtone
    /\ fe.midtone # fe.highlight
    /\ fe.shadow # fe.highlight
    /\ fe.out = fe.midtone

(***************************************************************************)
(* The copy of _dropShadowShift and _dropShadowNoFilter: where it writes   *)
(* and where it reads                                                      *)
(***************************************************************************)
\* C21: for a region inside the destination surface and an offset smaller
\* than the region on both axes, the size computed by _shift satisfies
\* 0 < size.w <= width and 0 < size.h <= height, and every destination pixel
\* written lies inside the surface, in the columns and rows of the copy.
C21_ShiftClipping ==
    sh.pc = "done" =>
        /\ 0 < sh.shift.w /\ sh.shift.w <= sh.bbox.maxx - sh.bbox.minx
        /\ 0 < sh.shift.h /\ sh.shift.h <= sh.bbox.maxy - sh.bbox.miny
        /\ \A wr \in sh.writes :
              /\ InSurface(wr.d)
              /\ ColOf(wr.d) >= ColOf(sh.shift.dst)
              /\ ColOf(wr.d) < ColOf(sh.shift.dst) + sh.shift.w
              /\ RowOf(wr.d) >= RowOf(sh.shift.dst)
              /\ RowOf(wr.d) < RowOf(sh.shift.dst) + sh.shift.h

\* A shadow pushed past the right and the bottom edge was clipped and copied.
C21_Witness ==
    /\ sh.pc = "done"
    /\ sh.offset[1] > 0 /\ sh.offset[2] > 0
    /\ sh.shift.w < sh.bbox.maxx - sh.bbox.minx
    /\ sh.shift.h < sh.bbox.maxy - sh.bbox.miny
    /\ sh.writes # {}

\* C28: for a region inside the surfaces and an offset smaller than the
\* region on both axes, every source pixel read by the copy lies in the
\* columns [bbox.min.x, bbox.max.x) and rows [bbox.min.y, bbox.max.y) of the
\* region, hence inside the source buffer.
C28_ShiftSourceReads ==
    sh.pc = "done" =>
        \A wr \in sh.writes :
            /\ InRegion(sh.bbox, wr.s)
            /\ ColOf(wr.s) >= ColOf(sh.shift.src)
            /\ RowOf(wr.s) >= RowOf(sh.shift.src)

(***************************************************************************)
(* position(): termination, the cursor it leaves, and what earlier calls   *)
(* change                                                                  *)
(***************************************************************************)
\* C25: position(len) returns after finitely many steps for every prepared
\* path and every requested length, a closed path of total length 0 queried
\* with a negative or a positive length included.
C25_PositionTerminates == fp.called => fp.st # "hang"

\* The cursor that has consumed the first k commands of the path, each with
\* its length added to currentLen.
RECURSIVE Consumed(_, _, _)
Consumed(c, p, k) ==
    IF k <= 0 \/ c.cmdsCnt <= 0 THEN c
    ELSE Consumed([Shift(c, p) EXCEPT !.currentLen = c.currentLen + SegLength(c, p)], p, k - 1)

\* C26: after any sequence of position() calls on a prepared path,
\* currentLen is the sum of the lengths of the commands the cursor has
\* consumed, cmdsCnt is the command count minus the number of consumed
\* commands, and pts is the first point of the cursor's command.
C26_CursorConsistency ==
    (fp.prepared /\ fp.st = "ok") =>
        LET k == fp.c.cmds
            ref == Consumed(FreshCursor(fp.path), fp.path, k)
        IN /\ fp.c.currentLen = ref.currentLen
           /\ fp.c.cmdsCnt = Len(fp.path.cmds) - k
           /\ fp.c.pts = ref.pts

\* C27: in a sequence of position() calls with lengths strictly between 0
\* and totalLen, the point and the angle returned for a length are those a
\* freshly prepared sampler returns for it, lengths on a vertex between two
\* segments included.
C27_HistoryIndependence ==
    (fp.called /\ fp.st = "ok" /\ fp.inside) =>
        LET fresh == PositionOf(FreshCursor(fp.path), fp.path, fp.totalLen, fp.len)
        IN fresh.st = "ok" /\ fp.pt = fresh.pt /\ fp.angle = fresh.angle

\* C30: when random > 0, the divisor int(len - range) of the random start is
\* non-zero for every start, end, offset and totalLen, a range that covers
\* the whole length included.
C30_RandomDivisorNonZero ==
    (tr.pc # "set" /\ tr.random > 0) =>
        /\ tr.pc # "divzero"
        /\ RandomDivisor(tr.unit, tr.totalLen, RAdd(tr.start, tr.offset),
                         RAdd(tr.end, tr.offset)) # 0

(***************************************************************************)
(* The kernel cache of the drop shadow: _gaussianInit,                     *)
(* effectDropShadowUpdate and the path effectDropShadow takes              *)
(*                                                                         *)
(* Floats are exact fractions.  rd is allocated without being initialised, *)
(* so level and kernel start with whatever the memory held.                *)
(***************************************************************************)
\* tvg::zero(a): fabsf(a) < FLOAT_EPSILON, FLOAT_EPSILON being 1.0e-06f
FloatZero(a) == RLt(Rat(Abs(a.n), a.d), Rat(1, 1000000))

\* int(x) of a float: truncation towards zero
TruncInt(x) == IF x.n >= 0 THEN x.n \div x.d ELSE 0 - ((0 - x.n) \div x.d)

\* (int) sqrt(x) for x >= 1: the largest k with k * k <= x
RECURSIVE IntSqrtFrom(_, _)
IntSqrtFrom(x, k) == IF RLe(Whole((k + 1) * (k + 1)), x) THEN IntSqrtFrom(x, k + 1) ELSE k

\* data->level = int(SwGaussianBlur::MAX_LEVEL * ((quality - 1) * 0.01f)) + 1
LevelOf(quality) == TruncInt(RMul(Whole(MAX_LEVEL), Rat(quality - 1, 100))) + 1

\* The box sizes wl, wu and the count m of the passes that use wl
KernelSizes(sigma) ==
    LET w0 == IntSqrtFrom(RAdd(RDiv(RMul(Whole(12), sigma), Whole(MAX_LEVEL)), Whole(1)), 0)
        wl == IF w0 % 2 = 0 THEN w0 - 1 ELSE w0
        mi == RDiv(RSub(RMul(Whole(12), sigma),
                        Whole(MAX_LEVEL * wl * wl + 4 * MAX_LEVEL * wl + 3 * MAX_LEVEL)),
                   Whole(0 - 4 * wl - 4))
    IN [wl |-> wl, wu |-> wl + 2, m |-> TruncInt(RAdd(mi, Rat(1, 2)))]

\* for (int i = 0; i < data->level; i++) data->kernel[i] = ((i < m ? wl : wu) - 1) / 2;
KernelOf(old, level, sz) ==
    [i \in 1..MAX_LEVEL |->
        IF i <= level THEN ((IF i - 1 < sz.m THEN sz.wl ELSE sz.wu) - 1) \div 2 ELSE old[i]]

RECURSIVE SumTo(_, _)
SumTo(kernel, n) == IF n <= 0 THEN 0 ELSE kernel[n] + SumTo(kernel, n - 1)

\* static int _gaussianInit(SwGaussianBlur* data, float sigma, int quality):
\* what data holds afterwards, the value returned, and whether level and
\* kernel were written by this call
GaussianInitWrite(level, kernel, sigma, quality) ==
    LET lv == LevelOf(quality)
        kn == KernelOf(kernel, lv, KernelSizes(sigma))
    IN [level |-> lv, kernel |-> kn, extends |-> SumTo(kn, lv), written |-> TRUE]

GaussianInit(level, kernel, sigma, quality) ==
    IF FloatZero(sigma)
    THEN [level |-> level, kernel |-> kernel, extends |-> 0, written |-> FALSE]
    ELSE GaussianInitWrite(level, kernel, sigma, quality)

\* What params->sigma, the transform scale and params->quality range over
Sigmas == {Whole(0), Rat(1, 2000), Whole(1), Whole(2)}
Scales == {0, 1, 2}
Qualities == {1, 50, 100}

\* What unwritten memory may hold as level and as a kernel radius
GarbageInts == {0 - 1, 7}

InitKernel ==
    /\ \E g \in GarbageInts, k \in GarbageInts :
         fe = [pc |-> "allocated", sigma |-> Whole(0), scale |-> 0, quality |-> 1, alpha |-> 0,
               valid |-> FALSE, level |-> g, kernel |-> [i \in 1..MAX_LEVEL |-> k],
               extends |-> 0, written |-> FALSE, path |-> "none"]
    /\ slot = NoSlot
    /\ hist = NoHist
    /\ fp = NoSampler
    /\ gb = NoBlur
    /\ ds = NoShadow
    /\ sh = NoShift
    /\ bf = NoFilter
    /\ gr = NoGradient
    /\ tr = NoRange

\* void effectDropShadowUpdate(RenderEffectDropShadow* params, const Matrix& transform)
DropShadowUpdate ==
    /\ fe.pc \in {"allocated", "applied"}
    /\ \E sigma \in Sigmas, scale \in Scales, quality \in Qualities, alpha \in {0, 255} :
         LET s == RMul(sigma, Whole(scale))
             rd == GaussianInit(fe.level, fe.kernel, RMul(s, s), quality)
         IN fe' = [fe EXCEPT !.pc = "updated", !.sigma = sigma, !.scale = scale,
                             !.quality = quality, !.alpha = alpha,
                             !.level = rd.level, !.kernel = rd.kernel,
                             !.extends = rd.extends, !.written = rd.written,
                             !.valid = DropShadowValid(alpha), !.path = "none"]
    /\ UNCHANGED <<slot, hist, fp, gb, ds, sh, bf, gr, tr>>

\* effectDropShadow on a valid effect: if (params->sigma == 0.0f) the copy
\* without filter, else the passes that read data->level and data->kernel
DropShadowApply ==
    /\ fe.pc = "updated"
    /\ fe.valid
    /\ fe' = [fe EXCEPT !.pc = "applied",
                        !.path = IF fe.sigma = Whole(0) THEN "nofilter" ELSE "blur"]
    /\ UNCHANGED <<slot, hist, fp, gb, ds, sh, bf, gr, tr>>

NextKernel == DropShadowUpdate \/ DropShadowApply

SpecKernel == InitKernel /\ [][NextKernel]_vars

\* C29: whenever effectDropShadow takes its blur path on an effect that
\* update marked valid, the level it reads is in 1..3 and the level and the
\* kernel radii were written by _gaussianInit during the latest update.
C29_KernelCacheInitialised ==
    (fe.pc = "applied" /\ fe.path = "blur") =>
        /\ fe.written
        /\ fe.level \in 1..MAX_LEVEL
        /\ \A i \in 1..fe.level : fe.kernel[i] >= 0

(***************************************************************************)
(* The values of the merged gradient stops                                 *)
(***************************************************************************)
StrictlyIncreasing(t) == \A i \in 1..(Len(t) - 1) : t[i].offset < t[i + 1].offset

\* A non-empty track evaluated at offset o: the value of a stop at o if there
\* is one (of any of them if several stops share the offset), else the value
\* of the first stop before it, of the last stop after it, and in between
\* the linear interpolation of the two neighbouring stops, cut to a whole
\* number as tvg::lerp<uint8_t> cuts it.
TrackAt(t, o) ==
    IF \E j \in 1..Len(t) : t[j].offset = o THEN {t[j].v : j \in {k \in 1..Len(t) : t[k].offset = o}}
    ELSE IF o < t[1].offset THEN {t[1].v}
    ELSE IF o > t[Len(t)].offset THEN {t[Len(t)].v}
    ELSE LET i == CHOOSE j \in 1..(Len(t) - 1) : t[j].offset < o /\ o < t[j + 1].offset
         IN {(t[i].v * (t[i + 1].offset - t[i].offset) + (t[i + 1].v - t[i].v) * (o - t[i].offset))
                \div (t[i + 1].offset - t[i].offset)}

\* The values of the two stops of a track that enclose offset o.
Neighbours(t, o) ==
    {t[j].v : j \in {k \in 1..Len(t) :
        \/ t[k].offset = o
        \/ (t[k].offset < o /\ \A m \in 1..Len(t) : t[m].offset < o => t[m].offset <= t[k].offset)
        \/ (t[k].offset > o /\ \A m \in 1..Len(t) : t[m].offset > o => t[m].offset >= t[k].offset)}}

Between(x, vals) == (\E v \in vals : v <= x) /\ (\E v \in vals : x <= v)

Luma(c) == (c[1] * 54 + c[2] * 182 + c[3] * 19) \div 256

\* A(c): the alpha byte
AlphaOf(c) == c[4]

\* INTERPOLATE(s, d, a): every byte d + (s - d) * a / 256
INTERPOLATE(s, d, a) == [i \in 1..4 |-> (d[i] + ((s[i] - d[i]) * a) \div 256) % 256]

\* The bytes of a pointer variable that holds address addr, lowest first
PointerBytes(addr) ==
    <<addr % 256, (addr \div 256) % 256, (addr \div 65536) % 256, (addr \div 16777216) % 256>>

\* What luma is handed: in the direct branch (uint8_t*)src, the pixel src
\* points to; in the other branch (uint8_t*)&dst, the pointer variable dst
LumaInput(direct, pixel, addr) == IF direct THEN pixel ELSE PointerBytes(addr)

\* The value effectTint writes for one pixel: src is the pixel of cmp->image,
\* under is the pixel of the recovery surface (direct branch), addr is where
\* the pixel of cmp->image lies
TintPixel(direct, src, under, addr, black, white, intensity, opacity) ==
    LET val0 == INTERPOLATE(white, black, Luma(LumaInput(direct, src, addr)))
        val == IF intensity < 255 THEN INTERPOLATE(val0, src, intensity) ELSE val0
    IN IF direct THEN INTERPOLATE(val, under, MULTIPLY(opacity, AlphaOf(src)))
       ELSE ALPHA_BLEND(val, MULTIPLY(opacity, AlphaOf(src)))

TintPixels == {Join(c[1], c[2], c[3], a) : c \in [1..3 -> {0, 255}], a \in {128, 255}}
Addresses == {1052672, 4202496}

InitTint ==
    /\ \E src \in TintPixels, under \in {Join(0, 0, 0, 255), Join(255, 255, 255, 255)},
          black \in {Join(0, 0, 0, 255), Join(0, 0, 128, 255)},
          white \in {Join(255, 255, 255, 255), Join(255, 128, 0, 255)},
          intensity \in {128, 255}, opacity \in {128, 255} :
         bf = [pc |-> "updated", src |-> src, under |-> under, black |-> black, white |-> white,
               intensity |-> intensity, opacity |-> opacity, direct |-> FALSE, x |-> 0,
               addr1 |-> 0, addr2 |-> 0, out1 |-> Join(0, 0, 0, 0), out2 |-> Join(0, 0, 0, 0)]
    /\ slot = NoSlot
    /\ hist = NoHist
    /\ fp = NoSampler
    /\ gb = NoBlur
    /\ ds = NoShadow
    /\ sh = NoShift
    /\ fe = NoEffect
    /\ gr = NoGradient
    /\ tr = NoRange

\* bool effectTint(cmp, params, direct), run twice on the same pixel data
\* with the compositor image at two addresses; x is the pixel's column
TintApply ==
    /\ bf.pc = "updated"
    /\ \E direct \in BOOLEAN, a1 \in Addresses, a2 \in Addresses, x \in 0..1 :
         bf' = [bf EXCEPT !.pc = "applied", !.direct = direct, !.x = x,
                          !.addr1 = a1 + 4 * x, !.addr2 = a2 + 4 * x,
                          !.out1 = TintPixel(direct, bf.src, bf.under, a1 + 4 * x, bf.black,
                                             bf.white, bf.intensity, bf.opacity),
                          !.out2 = TintPixel(direct, bf.src, bf.under, a2 + 4 * x, bf.black,
                                             bf.white, bf.intensity, bf.opacity)]
    /\ UNCHANGED <<slot, hist, fp, gb, ds, sh, fe, gr, tr>>

NextTint == TintApply

SpecTint == InitTint /\ [][NextTint]_vars

\* C23: in direct and in indirect mode the value effectTint writes for a
\* pixel depends only on that pixel's prior colour, the destination pixel,
\* the black, white and intensity parameters and the opacity: two runs on
\* equal pixel data give equal results wherever the buffers lie in memory.
C23_TintLumaInput == bf.pc = "applied" => bf.out1 = bf.out2

\* ---------------------------------------------------------------------
\* SVG loader: resolving the postponed <use> references
\* (_clonePostponedNodes and the functions it calls).
\*
\* A parsed document is a tree over the nodes 1..MaxNodes below the
\* document node; node n carries the id n, and a <use> node carries the
\* id it references. The id MaxNodes + 1 names no element. The documents
\* carry no <defs> element, so no reference is resolved while parsing and
\* every <use> is on the list when the resolution starts.
\* ---------------------------------------------------------------------

CheckDepthLimit == 512
CloneDepthLimit == 8192

NullNode == 0 - 1
DocNode == 0
SvgNodes == 1..MaxNodes
NoSuchId == MaxNodes + 1

\* node->child in document order
ChildrenOf(parent, node) ==
    SelectSeq([i \in SvgNodes |-> i], LAMBDA c : parent[c] = node)

RECURSIVE ParentWalk(_, _, _)
ParentWalk(parent, p, id) ==
    IF p = NullNode \/ p = DocNode THEN NullNode
    ELSE IF p = id THEN p
    ELSE ParentWalk(parent, parent[p], id)

\* static SvgNode* _findParentById(node, id, doc)
FindParentById(parent, node, id) == ParentWalk(parent, parent[node], id)

\* static SvgNode* _getDefsNode(node): the document has no <defs>
GetDefsNode(node) == NullNode

RECURSIVE FindNodeById(_, _, _)
RECURSIVE FindInChildren(_, _, _)
\* static SvgNode* _findNodeById(node, id); cloned nodes carry no id
FindNodeById(parent, node, id) ==
    IF node = NullNode THEN NullNode
    ELSE IF node # DocNode /\ node = id THEN node
    ELSE FindInChildren(parent, ChildrenOf(parent, node), id)

FindInChildren(parent, cs, id) ==
    IF cs = <<>> THEN NullNode
    ELSE LET result == FindNodeById(parent, Head(cs), id)
         IN  IF result # NullNode THEN result ELSE FindInChildren(parent, Tail(cs), id)

RECURSIVE CheckPostponed(_, _, _, _)
\* static bool _checkPostponed(node, cloneNode, depth); a cloned node is
\* never on the list and has only cloned nodes below it
CheckPostponed(parent, node, cloneNode, depth) ==
    IF node = cloneNode THEN TRUE
    ELSE IF depth = CheckDepthLimit THEN FALSE
    ELSE \E c \in SvgNodes :
            parent[c] = node /\ CheckPostponed(parent, c, cloneNode, depth + 1)

RECURSIVE SumCloned(_, _, _, _)
RECURSIVE CloneNode(_, _, _, _, _)
\* static void _cloneNode(from, parent, depth): the number of nodes it
\* creates; copies[n] counts the cloned nodes already below node n, and
\* the target of a nested call is the node the enclosing call created
CloneNode(parent, copies, from, to, depth) ==
    IF depth = CloneDepthLimit THEN 0
    ELSE IF from = NullNode \/ to = NullNode \/ from = to THEN 0
    ELSE 1 + copies[from] + SumCloned(parent, copies, ChildrenOf(parent, from), depth + 1)

SumCloned(parent, copies, cs, depth) ==
    IF cs = <<>> THEN 0
    ELSE CloneNode(parent, copies, Head(cs), NoSuchId, depth)
         + SumCloned(parent, copies, Tail(cs), depth)

\* the <use> nodes of a document in document order
UseNodes(use) == SelectSeq([i \in SvgNodes |-> i], LAMBDA n : n \in use)

SeqRange(s) == {s[i] : i \in 1..Len(s)}

InitClone ==
    /\ gr = [pc |-> "idle", parent |-> [n \in SvgNodes |-> DocNode], use |-> {},
             href |-> [n \in SvgNodes |-> NoSuchId], list |-> <<>>, cloned |-> {},
             dropped |-> {}, copies |-> [n \in SvgNodes |-> 0], postponed |-> 0]
    /\ slot = NoSlot
    /\ hist = NoHist
    /\ fp = NoSampler
    /\ gb = NoBlur
    /\ ds = NoShadow
    /\ sh = NoShift
    /\ bf = NoFilter
    /\ fe = NoEffect
    /\ tr = NoRange

\* the loader has parsed a document: every <use> found its id missing
\* from <defs> and was appended to cloneNodes (_attrParseUseNode)
ParseDocument ==
    /\ gr.pc = "idle"
    /\ \E use \in SUBSET SvgNodes :
       \E parent \in [SvgNodes -> 0..(MaxNodes - 1)] :
       \E href \in [SvgNodes -> 1..NoSuchId] :
          /\ \A n \in SvgNodes : parent[n] < n /\ parent[n] \notin use
          /\ \A n \in SvgNodes \ use : href[n] = NoSuchId
          /\ gr' = [gr EXCEPT !.pc = "resolving", !.parent = parent, !.use = use,
                              !.href = href, !.list = UseNodes(use)]
    /\ UNCHANGED <<slot, hist, fp, gb, ds, sh, bf, fe, tr>>

\* the element a pair refers to, looked up in <defs> and then in the document
NodeFrom(node) ==
    LET inDefs == FindNodeById(gr.parent, GetDefsNode(node), gr.href[node])
    IN  IF inDefs # NullNode THEN inDefs
        ELSE FindNodeById(gr.parent, DocNode, gr.href[node])

\* INLIST_FOREACH over what is left on the list after front() took the pair
Postpone(node, rest) ==
    /\ NodeFrom(node) # NullNode
    /\ \E p \in SeqRange(rest) : CheckPostponed(gr.parent, NodeFrom(node), p, 1)

\* one pass of the while loop: the referenced id is an ancestor's
ResolveAncestor ==
    /\ gr.pc = "resolving"
    /\ gr.list # <<>>
    /\ FindParentById(gr.parent, Head(gr.list), gr.href[Head(gr.list)]) # NullNode
    /\ gr' = [gr EXCEPT !.list = Tail(gr.list), !.dropped = @ \cup {Head(gr.list)},
                        !.postponed = 0]
    /\ UNCHANGED <<slot, hist, fp, gb, ds, sh, bf, fe, tr>>

\* one pass of the while loop: the pair goes back to the end of the list.
\* A pass changes nothing but the order of the list, so after as many
\* passes in a row as the list has pairs the loop is where it was and
\* repeats for ever: pc "hang"
ResolvePostpone ==
    /\ gr.pc = "resolving"
    /\ gr.list # <<>>
    /\ FindParentById(gr.parent, Head(gr.list), gr.href[Head(gr.list)]) = NullNode
    /\ Postpone(Head(gr.list), Tail(gr.list))
    /\ gr' = [gr EXCEPT !.list = Append(Tail(gr.list), Head(gr.list)),
                        !.postponed = @ + 1,
                        !.pc = IF gr.postponed + 1 >= Len(gr.list) THEN "hang"
                               ELSE "resolving"]
    /\ UNCHANGED <<slot, hist, fp, gb, ds, sh, bf, fe, tr>>

\* one pass of the while loop: the pair is resolved by _cloneNode
ResolveClone ==
    /\ gr.pc = "resolving"
    /\ gr.list # <<>>
    /\ FindParentById(gr.parent, Head(gr.list), gr.href[Head(gr.list)]) = NullNode
    /\ ~Postpone(Head(gr.list), Tail(gr.list))
    /\ LET node == Head(gr.list)
           made == CloneNode(gr.parent, gr.copies, NodeFrom(node), node, 0)
       IN  gr' = [gr EXCEPT !.list = Tail(gr.list),
                            !.cloned = IF made > 0 THEN @ \cup {<<node, NodeFrom(node)>>}
                                       ELSE @,
                            !.copies[node] = @ + made,
                            !.postponed = 0]
    /\ UNCHANGED <<slot, hist, fp, gb, ds, sh, bf, fe, tr>>

\* front() gives nullptr: the loop ends and _clonePostponedNodes returns
ResolveReturn ==
    /\ gr.pc = "resolving"
    /\ gr.list = <<>>
    /\ gr' = [gr EXCEPT !.pc = "returned"]
    /\ UNCHANGED <<slot, hist, fp, gb, ds, sh, bf, fe, tr>>

NextClone ==
    \/ ParseDocument
    \/ ResolveAncestor
    \/ ResolvePostpone
    \/ ResolveClone
    \/ ResolveReturn

SpecClone == InitClone /\ [][NextClone]_vars

\* C24: resolving the postponed <use> references terminates for every
\* document, also when <use> elements reference an ancestor, themselves
\* or each other in a cycle: the loop never comes back to a state it was
\* in, and a <use> that references one of its own ancestors is never cloned.
C24_UseCloningTerminates ==
    /\ gr.pc # "hang"
    /\ gr.pc \in {"resolving", "returned"} =>
          \A c \in gr.cloned : ParentWalk(gr.parent, gr.parent[c[1]], c[2]) = NullNode

====
